---- MODULE Spec2Model ----
(***************************************************************************)
(* Credential custody and token refresh of the reworq API:                 *)
(*   lib/utils        authorizeUserAccess, getIntegration                  *)
(*   lib/googleapis   ensureFreshAccessToken, refreshAndSaveTokens,        *)
(*                    getGoogleService, getGoogleServiceByUserId,          *)
(*                    getGoogleToken and the module-level client auth      *)
(*   services/google  GoogleService.checkConflict                          *)
(*   controllers      checkConflictController, getIntegrationsController,  *)
(*                    updateIntegrationController, and the callback of     *)
(*                    GET /oauth/google/callback as the design gives it    *)
(* Every request is a process that advances from one await to the next;    *)
(* the code between two awaits is one atomic step.  Times are epoch        *)
(* milliseconds, optional values are <<>> (absent) or <<v>> (present).     *)
(***************************************************************************)
EXTENDS Integers, FiniteSets, Sequences, TLC

\* ---------------------------------------------------------------- bounds
MaxTicks == 2
MaxIssued == 2
MaxRequests == 1
\* requests in flight at once in the specifications of concurrent requests
MaxConcurrent == 2
\* events in one answer of calendar.events.list
MaxEvents == 2
\* attendees of an event, and emails in a list of participants
MaxAttendees == 2

\* ------------------------------------------------------------- constants
MinuteMs == 60 * 1000
\* const TOKEN_SKEW_MS = 5 * 60 * 1000
TOKEN_SKEW_MS == 5 * 60 * 1000
\* OAuth2Client.eagerRefreshThresholdMillis (library default, 5 minutes)
eagerRefreshThresholdMillis == 5 * 60 * 1000
\* wall clock at the first state
StartMs == 10 * MinuteMs
\* lifetime the provider grants to a refreshed access token (expires_in)
ExpiresInMs == 10 * MinuteMs

None == << >>
Some(v) == << v >>
Val(o) == o[1]

\* opaque token values: the one stored at provisioning, the ones the
\* provider issues on refresh, the one a PUT /integrations body supplies
Token(by, n) == [by |-> by, n |-> n]

Requests == 1 .. MaxRequests
Concurrent == 1 .. MaxConcurrent
UserHex == {"u1", "u2"}
Names == {"google", "slack"}

\* User._id is an ObjectId (types/user.ts); resourceUserId is a string
ObjectIds == [kind : {"oid"}, hex : UserHex]
Strings == [kind : {"str"}, hex : UserHex]
\* ObjectId.prototype.toString / String.prototype.toString
toString(id) == id.hex

\* req.user : absent, present without _id, or present with _id
ReqUsers == {None} \cup {Some(None)} \cup {Some(Some(i)) : i \in ObjectIds}
HasPrincipal(user) == user # None /\ Val(user) # None
PrincipalOf(user) == Val(Val(user))

VARIABLES
  auth,          \* credentials of the module-level OAuth2Client `auth`
  now,           \* Date.now()
  integrations,  \* IntegrationModel collection: a set of documents
  issued,        \* number of tokens the provider has issued so far
  pc,            \* per request: the await it is suspended at
  call,          \* per request: entry point and its arguments
  integration,   \* per request: the document findOne resolved (in memory)
  client,        \* per request: credentials of its OAuth2Client
  pending,       \* per request: updateOne of the "tokens" listener in flight
  outcome,       \* per request: error thrown / response sent
  seen,          \* per request: locals of ensureFreshAccessToken, the
                 \*   bearer token sent, the tokens object of the event
  stats,         \* per request: store reads, store writes, provider calls
  reply,         \* per request: the body sent (response, or provider payload)
  users,         \* UserModel collection: a set of documents
  emails,        \* the magic-link emails handed to the mail service
  signed         \* the session refresh tokens handed out in responses

userVars == << users, emails, signed >>

vars == << auth, now, integrations, issued, pc, call, integration, client,
           pending, outcome, seen, stats, reply, userVars >>

\* ------------------------------------------------------------- documents
Doc(id, user, name, at, rt, exp, upd) ==
  [_id |-> id, user_id |-> user, name |-> name, access_token |-> at,
   refresh_token |-> rt, expires_at |-> exp, updated_at |-> upd]

\* findOne without the user_id key in its filter
FindOne_ignoresUser(store, user, name) ==
  LET m == {d \in store : d.name = name}
  IN IF m = {} THEN None
     ELSE Some(CHOOSE d \in m : \A e \in m : d._id <= e._id)

\* IntegrationModel.findOne(filter): the first matching document, or none
FindOne(store, user, name) ==
  LET m == {d \in store : d.user_id = user /\ d.name = name}
  IN IF m = {} THEN None
     ELSE Some(CHOOSE d \in m : \A e \in m : d._id <= e._id)

\* an update that writes the absent fields too
ApplySet_writesAbsent(d, u) ==
  [d EXCEPT !.access_token = u.access_token,
            !.refresh_token = u.refresh_token,
            !.expires_at = u.expires_at,
            !.updated_at = IF u.updated_at # None THEN Val(u.updated_at) ELSE @]

\* IntegrationModel.updateOne({_id}, {$set: updates})
ApplySet(d, u) ==
  [d EXCEPT !.access_token = IF u.access_token # None THEN u.access_token ELSE @,
            !.refresh_token = IF u.refresh_token # None THEN u.refresh_token ELSE @,
            !.expires_at = IF u.expires_at # None THEN u.expires_at ELSE @,
            !.updated_at = IF u.updated_at # None THEN Val(u.updated_at) ELSE @]

UpdateOne(store, id, u) ==
  {IF d._id = id THEN ApplySet(d, u) ELSE d : d \in store}

NoUpdates == [access_token |-> None, refresh_token |-> None,
              expires_at |-> None, updated_at |-> None]

ZeroStats == [reads |-> 0, writes |-> 0, refreshCalls |-> 0, clients |-> 0]
NoSeen == [exp |-> 0, now |-> 0, access_token |-> None, bearer |-> None,
           tokens |-> None, payload |-> None]
NoCall == [entry |-> "none"]

\* a document of UserModel
UserDoc(id, email, name, magic, magicExp, refresh) ==
  [_id |-> id, email |-> email, name |-> name, magicLinkToken |-> magic,
   magicLinkExpires |-> magicExp, refreshToken |-> refresh]

\* ------------------------------------------------------------------ Init
InitExpiries ==
  {None} \cup {Some(StartMs + d * MinuteMs) : d \in {0 - 1, 1, 5, 6}}

\* the state after start-up, for the request slots S
InitOver(S) ==
  /\ auth = None
  /\ now = StartMs
  /\ issued = 0
  /\ \E e1 \in InitExpiries, has1 \in BOOLEAN :
       integrations =
         IF has1
           THEN {Doc(1, "u1", "google", Some(Token("grant", 1)),
                     Some(Token("grant", 1)), e1, StartMs - MinuteMs)}
           ELSE {}
  /\ pc = [r \in S |-> "idle"]
  /\ call = [r \in S |-> NoCall]
  /\ integration = [r \in S |-> None]
  /\ client = [r \in S |-> None]
  /\ pending = [r \in S |-> None]
  /\ outcome = [r \in S |-> "none"]
  /\ seen = [r \in S |-> NoSeen]
  /\ stats = [r \in S |-> ZeroStats]
  /\ reply = [r \in S |-> None]
  /\ users = {UserDoc("u1", "a@x", Some("A"), None, None, None)}
  /\ emails = {}
  /\ signed = {}

Init == InitOver(Requests)

\* ----------------------------------------------------------------- clock
Tick ==
  /\ now < StartMs + MaxTicks * MinuteMs
  /\ \A r \in DOMAIN pc : pc[r] = "idle"
  /\ now' = now + MinuteMs
  /\ UNCHANGED << userVars, reply, auth >>
  /\ UNCHANGED << integrations, issued, pc, call, integration, client,
                  pending, outcome, seen, stats >>

\* ------------------------------------------------- lib/utils (part_004)
\* getIntegration(userId, name): findOne({user_id: userId, name}).lean(),
\* handed back as it is; the function has the two arguments and no request
getIntegration(r) ==
  /\ pc[r] = "idle"
  /\ \E userId \in UserHex, name \in Names :
       /\ call' = [call EXCEPT ![r] = [entry |-> "getIntegration",
                                       userId |-> userId, name |-> name]]
       /\ integration' = [integration EXCEPT ![r] =
                            FindOne(integrations, userId, name)]
  /\ stats' = [stats EXCEPT ![r] = [@ EXCEPT !.reads = @ + 1]]
  /\ outcome' = [outcome EXCEPT ![r] = "returned"]
  /\ pc' = [pc EXCEPT ![r] = "done"]
  /\ UNCHANGED << userVars, reply, auth >>
  /\ UNCHANGED << now, integrations, issued, client, pending, seen >>

\* authorizeUserAccess without its owner comparison
authorizeUserAccess_noOwnerCheck(user, resourceUserId) ==
  IF ~HasPrincipal(user) THEN "User not authenticated" ELSE "true"

\* authorizeUserAccess letting a request without a principal through
authorizeUserAccess_noPrincipalCheck(user, resourceUserId) ==
  IF HasPrincipal(user)
       /\ toString(PrincipalOf(user)) # toString(resourceUserId)
    THEN "Unauthorized: Cannot access another user's resources"
    ELSE "true"

\* authorizeUserAccess comparing the ObjectId with the string, no toString()
authorizeUserAccess_noToString(user, resourceUserId) ==
  IF ~HasPrincipal(user) THEN "User not authenticated"
  ELSE IF PrincipalOf(user) # resourceUserId
    THEN "Unauthorized: Cannot access another user's resources"
    ELSE "true"

\* authorizeUserAccess(req, resourceUserId): the error message it throws,
\* or "true"
authorizeUserAccess(user, resourceUserId) ==
  IF ~HasPrincipal(user) THEN "User not authenticated"
  ELSE IF toString(PrincipalOf(user)) # toString(resourceUserId)
    THEN "Unauthorized: Cannot access another user's resources"
    ELSE "true"

AuthorizeCall(r) ==
  /\ pc[r] = "idle"
  /\ \E user \in ReqUsers, resourceUserId \in Strings :
       /\ call' = [call EXCEPT ![r] = [entry |-> "authorizeUserAccess",
                     user |-> user, resourceUserId |-> resourceUserId]]
       /\ outcome' = [outcome EXCEPT ![r] =
                        authorizeUserAccess(user, resourceUserId)]
  /\ pc' = [pc EXCEPT ![r] = "done"]
  /\ UNCHANGED << userVars, reply, auth >>
  /\ UNCHANGED << now, integrations, issued, integration, client, pending,
                  seen, stats >>

\* --------------------------------- OAuth2Client (google-auth-library)
\* client.setCredentials({access_token, refresh_token, expiry_date}) with
\* expiry_date = expires_at ? new Date(expires_at).getTime() : 0
Credentials(doc) ==
  [access_token |-> doc.access_token, refresh_token |-> doc.refresh_token,
   expiry_date |-> IF doc.expires_at # None THEN Val(doc.expires_at) ELSE 0]

\* OAuth2Client.isTokenExpiring(): expiryDate
\*   ? expiryDate <= Date.now() + eagerRefreshThresholdMillis : false
isTokenExpiring(cred, t) ==
  IF cred.expiry_date # 0
    THEN cred.expiry_date <= t + eagerRefreshThresholdMillis
    ELSE FALSE

\* OAuth2Client.getAccessToken(): refresh only when there is no access
\* token or the token is expiring; otherwise hand back the cached token
shouldRefresh(cred, t) == cred.access_token = None \/ isTokenExpiring(cred, t)

\* --------------------------------------- lib/googleapis (part_002)
\* ensureFreshAccessToken: exp and the condition of its if
ExpOf(doc) == IF doc.expires_at # None THEN Val(doc.expires_at) ELSE 0
\* the test with < in place of <=
needsRefresh_strict(exp, t) == exp = 0 \/ exp - t < TOKEN_SKEW_MS

needsRefresh(exp, t) == exp = 0 \/ exp - t <= TOKEN_SKEW_MS

\* a forced refresh on every call, whatever the expiry
callsProvider_always(doc, t) == TRUE

\* ensureFreshAccessToken reaches the provider: its own test lets
\* client.getAccessToken() run, and getAccessToken decides to refresh
callsProvider(doc, t) ==
  needsRefresh(ExpOf(doc), t) /\ shouldRefresh(Credentials(doc), t)

\* the catch block never recognising a revocation / taking every error for one
isRevocation_never(err) == FALSE

isRevocation_always(err) == TRUE

\* err?.response?.data?.error === "invalid_grant"
isRevocation(err) == err = "invalid_grant"

\* getGoogleServiceByUserId without its check
sameUser_unchecked(userId, requestingUserId) == TRUE

\* the authorization check of getGoogleServiceByUserId
sameUser(userId, requestingUserId) == userId = requestingUserId

\* the listener never putting the access token into its updates
ListenerUpdates_keepsAccessToken(tokens, doc, t) ==
  LET rt == IF tokens.refresh_token # None
               /\ tokens.refresh_token # doc.refresh_token
              THEN tokens.refresh_token ELSE None
      ex == IF tokens.expiry_date # 0
               /\ Some(tokens.expiry_date) # doc.expires_at
              THEN Some(tokens.expiry_date) ELSE None
  IN [access_token |-> None, refresh_token |-> rt, expires_at |-> ex,
      updated_at |-> IF rt # None \/ ex # None THEN Some(t) ELSE None]

\* the listener storing tokens.refresh_token whether or not there is one
ListenerUpdates_clearsRefreshToken(tokens, doc, t) ==
  LET at == IF tokens.access_token # None
               /\ tokens.access_token # doc.access_token
              THEN tokens.access_token ELSE None
      rt == IF tokens.refresh_token # None
              THEN tokens.refresh_token ELSE Some(Token("undefined", 0))
      ex == IF tokens.expiry_date # 0
               /\ Some(tokens.expiry_date) # doc.expires_at
              THEN Some(tokens.expiry_date) ELSE None
  IN [access_token |-> at, refresh_token |-> rt, expires_at |-> ex,
      updated_at |-> Some(t)]

\* the listener storing every field the event carries, changed or not
ListenerUpdates_writesAll(tokens, doc, t) ==
  LET ex == IF tokens.expiry_date # 0
              THEN Some(tokens.expiry_date) ELSE None
  IN [access_token |-> tokens.access_token,
      refresh_token |-> tokens.refresh_token, expires_at |-> ex,
      updated_at |-> IF tokens.access_token # None
                          \/ tokens.refresh_token # None \/ ex # None
                       THEN Some(t) ELSE None]

\* the listener without updates.updated_at = new Date()
ListenerUpdates_noUpdatedAt(tokens, doc, t) ==
  LET at == IF tokens.access_token # None
               /\ tokens.access_token # doc.access_token
              THEN tokens.access_token ELSE None
      rt == IF tokens.refresh_token # None
               /\ tokens.refresh_token # doc.refresh_token
              THEN tokens.refresh_token ELSE None
      ex == IF tokens.expiry_date # 0
               /\ Some(tokens.expiry_date) # doc.expires_at
              THEN Some(tokens.expiry_date) ELSE None
  IN [access_token |-> at, refresh_token |-> rt, expires_at |-> ex,
      updated_at |-> None]

\* the "tokens" listener of refreshAndSaveTokens: the updates object it
\* builds from the emitted tokens and the in-memory integration
ListenerUpdates(tokens, doc, t) ==
  LET at == IF tokens.access_token # None
               /\ tokens.access_token # doc.access_token
              THEN tokens.access_token ELSE None
      rt == IF tokens.refresh_token # None
               /\ tokens.refresh_token # doc.refresh_token
              THEN tokens.refresh_token ELSE None
      ex == IF tokens.expiry_date # 0
               /\ Some(tokens.expiry_date) # doc.expires_at
              THEN Some(tokens.expiry_date) ELSE None
  IN [access_token |-> at, refresh_token |-> rt, expires_at |-> ex,
      updated_at |-> IF at # None \/ rt # None \/ ex # None
                       THEN Some(t) ELSE None]

Bump(st, f) == [st EXCEPT ![f] = @ + 1]

\* getGoogleService(req), up to its first await
getGoogleService(r) ==
  /\ pc[r] = "idle"
  /\ \E user \in ReqUsers :
       /\ call' = [call EXCEPT ![r] = [entry |-> "getGoogleService",
                                       user |-> user]]
       /\ IF ~HasPrincipal(user)
            THEN /\ outcome' = [outcome EXCEPT ![r] = "User not authenticated"]
                 /\ pc' = [pc EXCEPT ![r] = "done"]
            ELSE /\ outcome' = outcome
                 /\ pc' = [pc EXCEPT ![r] = "findOne"]
  /\ UNCHANGED << userVars, reply, auth >>
  /\ UNCHANGED << now, integrations, issued, integration, client, pending,
                  seen, stats >>

\* getGoogleServiceByUserId(userId, requestingUserId), up to its first await
getGoogleServiceByUserId(r) ==
  /\ pc[r] = "idle"
  /\ \E userId \in UserHex, requestingUserId \in UserHex :
       /\ call' = [call EXCEPT ![r] = [entry |-> "getGoogleServiceByUserId",
                     userId |-> userId,
                     requestingUserId |-> requestingUserId]]
       /\ IF ~sameUser(userId, requestingUserId)
            THEN /\ outcome' = [outcome EXCEPT ![r] =
                      "Unauthorized: Cannot access another user's integrations"]
                 /\ pc' = [pc EXCEPT ![r] = "done"]
            ELSE /\ outcome' = outcome
                 /\ pc' = [pc EXCEPT ![r] = "findOne"]
  /\ UNCHANGED << userVars, reply, auth >>
  /\ UNCHANGED << now, integrations, issued, integration, client, pending,
                  seen, stats >>

\* the filter keyed by an id that is not the principal of the session
LookupUser_notPrincipal(c) ==
  IF c.entry = "getGoogleServiceByUserId" THEN c.userId
  ELSE CHOOSE h \in UserHex : h # toString(PrincipalOf(c.user))

\* the user id the pending findOne filters on (Mongoose casts it to the
\* ObjectId with that hex)
LookupUser(c) ==
  IF c.entry = "getGoogleServiceByUserId" THEN c.userId
  ELSE toString(PrincipalOf(c.user))

\* findOne resolves; then new OAuth2Client, setCredentials,
\* refreshAndSaveTokens (registers the listener) and ensureFreshAccessToken
\* up to the provider call of client.getAccessToken()
FindOneResolved(r) ==
  /\ pc[r] = "findOne"
  /\ LET found == FindOne(integrations, LookupUser(call[r]), "google")
     IN IF found = None
          THEN /\ outcome' = [outcome EXCEPT ![r] = "No Google integration found"]
               /\ pc' = [pc EXCEPT ![r] = "done"]
               /\ stats' = [stats EXCEPT ![r] = Bump(@, "reads")]
               /\ UNCHANGED << integration, client, seen >>
          ELSE LET doc == Val(found)
                   cred == Credentials(doc)
                   exp == ExpOf(doc)
               IN /\ integration' = [integration EXCEPT ![r] = found]
                  /\ client' = [client EXCEPT ![r] = Some(cred)]
                  /\ seen' = [seen EXCEPT ![r] = [NoSeen EXCEPT !.exp = exp,
                                !.now = now,
                                !.access_token = doc.access_token]]
                  /\ IF callsProvider(doc, now)
                       THEN IF cred.refresh_token = None
                              THEN /\ outcome' = [outcome EXCEPT ![r] =
                                        "No refresh token or refresh handler callback is set."]
                                   /\ pc' = [pc EXCEPT ![r] = "done"]
                                   /\ stats' = [stats EXCEPT ![r] =
                                        Bump(Bump(@, "reads"), "clients")]
                              ELSE /\ outcome' = outcome
                                   /\ pc' = [pc EXCEPT ![r] = "refreshing"]
                                   /\ stats' = [stats EXCEPT ![r] =
                                        Bump(Bump(Bump(@, "reads"), "clients"),
                                             "refreshCalls")]
                       ELSE /\ outcome' = outcome
                            /\ pc' = [pc EXCEPT ![r] = "client"]
                            /\ stats' = [stats EXCEPT ![r] =
                                 Bump(Bump(@, "reads"), "clients")]
  /\ UNCHANGED << userVars, reply, auth >>
  /\ UNCHANGED << now, integrations, issued, call, pending >>

\* the library emits "tokens": the listener builds its updates and starts
\* updateOne without anyone awaiting it; the library keeps the old refresh
\* token in the credentials of the client
Emit(r, tokens) ==
  LET doc == Val(integration[r])
      updates == ListenerUpdates(tokens, doc, now)
  IN /\ client' = [client EXCEPT ![r] =
                     Some([tokens EXCEPT !.refresh_token =
                             Val(client[r]).refresh_token])]
     /\ seen' = [seen EXCEPT ![r] = [@ EXCEPT !.tokens = Some(tokens)]]
     /\ IF updates # NoUpdates
          THEN /\ pending' = [pending EXCEPT ![r] =
                                Some([id |-> doc._id, set |-> updates])]
               /\ stats' = [stats EXCEPT ![r] = Bump(@, "writes")]
          ELSE UNCHANGED << pending, stats >>

\* the provider answers the refresh with new tokens; after the event
\* getAccessToken, ensureFreshAccessToken and getGoogleService return
RefreshSucceeds(r) ==
  /\ pc[r] = "refreshing"
  /\ issued < MaxIssued
  /\ \E rotate \in BOOLEAN :
       Emit(r, [access_token |-> Some(Token("refresh", issued + 1)),
                refresh_token |-> IF rotate
                                    THEN Some(Token("refresh", issued + 1))
                                    ELSE None,
                expiry_date |-> now + ExpiresInMs])
  /\ issued' = issued + 1
  /\ pc' = [pc EXCEPT ![r] = "client"]
  /\ UNCHANGED << userVars, reply, auth >>
  /\ UNCHANGED << now, integrations, call, integration, outcome >>

\* what a "tokens" event can carry, seen from the listener: each field
\* absent, equal to the one of the in-memory integration, or new
EventTokens(doc, t, n) ==
  [access_token : {None, doc.access_token, Some(Token("refresh", n))},
   refresh_token : {None, doc.refresh_token, Some(Token("refresh", n))},
   expiry_date : {0, ExpOf(doc), t + ExpiresInMs}]

\* a "tokens" event with any of these payloads reaches the listener
TokensEvent(r) ==
  /\ pc[r] = "refreshing"
  /\ issued < MaxIssued
  /\ \E tokens \in EventTokens(Val(integration[r]), now, issued + 1) :
       Emit(r, tokens)
  /\ issued' = issued + 1
  /\ pc' = [pc EXCEPT ![r] = "client"]
  /\ UNCHANGED << userVars, reply, auth >>
  /\ UNCHANGED << now, integrations, call, integration, outcome >>

\* the updateOne started by the listener reaches the store; the listener
\* then copies the updates onto the in-memory integration (Object.assign)
ListenerWriteApplied(r) ==
  /\ pending[r] # None
  /\ pc[r] \in {"client", "remote", "done"}
  /\ LET w == Val(pending[r])
     IN /\ integrations' = UpdateOne(integrations, w.id, w.set)
        /\ integration' = [integration EXCEPT ![r] =
                             Some(ApplySet(Val(integration[r]), w.set))]
  /\ pending' = [pending EXCEPT ![r] = None]
  /\ UNCHANGED << userVars, reply, auth >>
  /\ UNCHANGED << now, issued, pc, call, client, outcome, seen, stats >>

\* err.response.data.error of a failed refresh; "network" has no response
RefreshErrors == {"invalid_grant", "server_error", "network"}

\* the provider call of client.getAccessToken() fails: the catch block of
\* ensureFreshAccessToken
RefreshFails(r) ==
  /\ pc[r] = "refreshing"
  /\ \E err \in RefreshErrors :
       /\ outcome' = [outcome EXCEPT ![r] = err]
       /\ IF isRevocation(err)
            THEN /\ pending' = [pending EXCEPT ![r] =
                      Some([id |-> Val(integration[r])._id,
                            set |-> [NoUpdates EXCEPT !.updated_at = Some(now)]])]
                 /\ stats' = [stats EXCEPT ![r] = Bump(@, "writes")]
                 /\ pc' = [pc EXCEPT ![r] = "revoked"]
            ELSE /\ pc' = [pc EXCEPT ![r] = "done"]
                 /\ UNCHANGED << pending, stats >>
  /\ UNCHANGED << userVars, reply, auth >>
  /\ UNCHANGED << now, integrations, issued, call, integration, client, seen >>

\* the awaited updateOne({$set: {updated_at}}) completes; throw err
RevokedTouchApplied(r) ==
  /\ pc[r] = "revoked"
  /\ LET w == Val(pending[r])
     IN integrations' = UpdateOne(integrations, w.id, w.set)
  /\ pending' = [pending EXCEPT ![r] = None]
  /\ pc' = [pc EXCEPT ![r] = "done"]
  /\ UNCHANGED << userVars, reply, auth >>
  /\ UNCHANGED << now, issued, call, integration, client, outcome, seen,
                  stats >>

\* ------------------------------------- services/google (part_004)
\* GoogleService.checkConflict after googleService() returned the client:
\* calendar.events.list goes out with the client's access token
CheckConflictList(r) ==
  /\ pc[r] = "client"
  /\ call[r].entry = "getGoogleService"
  /\ seen' = [seen EXCEPT ![r] =
                [@ EXCEPT !.bearer = Val(client[r]).access_token]]
  /\ pc' = [pc EXCEPT ![r] = "remote"]
  /\ UNCHANGED << userVars, reply, auth >>
  /\ UNCHANGED << now, integrations, issued, call, integration, client,
                  pending, outcome, stats >>

\* the provider answers the list call; checkConflictController responds
CheckConflictResponds(r) ==
  /\ pc[r] = "remote"
  /\ \E ok \in BOOLEAN :
       outcome' = [outcome EXCEPT ![r] = IF ok THEN "success" ELSE "remote_error"]
  /\ pc' = [pc EXCEPT ![r] = "done"]
  /\ UNCHANGED << userVars, reply, auth >>
  /\ UNCHANGED << now, integrations, issued, call, integration, client,
                  pending, seen, stats >>

\* ------------------------- controllers/integrations (README.md 872-947)
\* the auth middleware either attached a loaded user or nothing
ControllerUsers == {None} \cup {Some(Some(i)) : i \in ObjectIds}

\* getIntegrationsController: one store read, then the response
getIntegrationsController(r) ==
  /\ pc[r] = "idle"
  /\ \E user \in ControllerUsers, name \in {None} \cup {Some(n) : n \in Names} :
       /\ call' = [call EXCEPT ![r] = [entry |-> "getIntegrationsController",
                                       user |-> user, name |-> name]]
       /\ IF user = None
            THEN /\ outcome' = [outcome EXCEPT ![r] = "500 Internal server error"]
                 /\ UNCHANGED << integration, stats >>
            ELSE LET userId == toString(PrincipalOf(user))
                 IN /\ stats' = [stats EXCEPT ![r] = Bump(@, "reads")]
                    /\ IF name # None
                         THEN LET found == FindOne(integrations, userId, Val(name))
                              IN /\ integration' = [integration EXCEPT ![r] = found]
                                 /\ outcome' = [outcome EXCEPT ![r] =
                                      IF found = None
                                        THEN "404 Integration not found"
                                        ELSE "200"]
                         ELSE /\ integration' = [integration EXCEPT ![r] =
                                   Some({d \in integrations : d.user_id = userId})]
                              /\ outcome' = [outcome EXCEPT ![r] = "200"]
  /\ pc' = [pc EXCEPT ![r] = "done"]
  /\ UNCHANGED << userVars, reply, auth >>
  /\ UNCHANGED << now, integrations, issued, client, pending, seen >>

\* req.body of PUT /integrations/:name
Bodies ==
  [access_token : {None, Some(Token("put", 1))},
   refresh_token : {None, Some(Token("put", 1))},
   expires_at : {None, Some(StartMs + 6 * MinuteMs)}]

\* updateIntegrationController up to await integration.save()
updateIntegrationController(r) ==
  /\ pc[r] = "idle"
  /\ \E user \in ControllerUsers, name \in Names, body \in Bodies :
       /\ call' = [call EXCEPT ![r] = [entry |-> "updateIntegrationController",
                     user |-> user, name |-> name, body |-> body]]
       /\ IF user = None
            THEN /\ outcome' = [outcome EXCEPT ![r] =
                      "500 Failed to update integration token"]
                 /\ pc' = [pc EXCEPT ![r] = "done"]
                 /\ UNCHANGED << integration, pending, stats >>
            ELSE LET found == FindOne(integrations,
                                      toString(PrincipalOf(user)), name)
                 IN IF found = None
                      THEN /\ outcome' = [outcome EXCEPT ![r] =
                                "404 Integration not found"]
                           /\ pc' = [pc EXCEPT ![r] = "done"]
                           /\ stats' = [stats EXCEPT ![r] = Bump(@, "reads")]
                           /\ UNCHANGED << integration, pending >>
                      ELSE LET doc == Val(found)
                               gate == authorizeUserAccess(user,
                                         [kind |-> "str", hex |-> doc.user_id])
                               set == [access_token |-> body.access_token,
                                       refresh_token |-> body.refresh_token,
                                       expires_at |-> body.expires_at,
                                       updated_at |-> Some(now)]
                           IN IF gate # "true"
                                THEN /\ outcome' = [outcome EXCEPT ![r] =
                                          IF gate = "User not authenticated"
                                            THEN "500 Failed to update integration token"
                                            ELSE "403 Unauthorized: Cannot access another user's resources"]
                                     /\ pc' = [pc EXCEPT ![r] = "done"]
                                     /\ stats' = [stats EXCEPT ![r] = Bump(@, "reads")]
                                     /\ UNCHANGED << integration, pending >>
                                ELSE /\ integration' = [integration EXCEPT ![r] =
                                          Some(ApplySet(doc, set))]
                                     /\ pending' = [pending EXCEPT ![r] =
                                          Some([id |-> doc._id, set |-> set])]
                                     /\ stats' = [stats EXCEPT ![r] =
                                          Bump(Bump(@, "reads"), "writes")]
                                     /\ pc' = [pc EXCEPT ![r] = "save"]
                                     /\ outcome' = outcome
  /\ UNCHANGED << userVars, reply, auth >>
  /\ UNCHANGED << now, integrations, issued, client, seen >>

\* integration.save() completes; res.status(200).json(integration)
IntegrationSaved(r) ==
  /\ pc[r] = "save"
  /\ LET w == Val(pending[r])
     IN integrations' = UpdateOne(integrations, w.id, w.set)
  /\ pending' = [pending EXCEPT ![r] = None]
  /\ outcome' = [outcome EXCEPT ![r] = "200"]
  /\ pc' = [pc EXCEPT ![r] = "done"]
  /\ UNCHANGED << userVars, reply, auth >>
  /\ UNCHANGED << now, issued, call, integration, client, seen, stats >>

\* the request is over and its slot is free for the next one
Finish(r) ==
  /\ \/ pc[r] = "done"
     \/ pc[r] = "client" /\ call[r].entry = "getGoogleServiceByUserId"
  /\ pending[r] = None
  /\ pc' = [pc EXCEPT ![r] = "idle"]
  /\ call' = [call EXCEPT ![r] = NoCall]
  /\ integration' = [integration EXCEPT ![r] = None]
  /\ client' = [client EXCEPT ![r] = None]
  /\ outcome' = [outcome EXCEPT ![r] = "none"]
  /\ seen' = [seen EXCEPT ![r] = NoSeen]
  /\ stats' = [stats EXCEPT ![r] = ZeroStats]
  /\ reply' = [reply EXCEPT ![r] = None]
  /\ UNCHANGED << userVars, auth, now, integrations, issued, pending >>

Next ==
  \/ Tick
  \/ \E r \in Requests : getIntegration(r)
  \/ \E r \in Requests : AuthorizeCall(r)
  \/ \E r \in Requests : getGoogleService(r)
  \/ \E r \in Requests : getGoogleServiceByUserId(r)
  \/ \E r \in Requests : FindOneResolved(r)
  \/ \E r \in Requests : RefreshSucceeds(r)
  \/ \E r \in Requests : ListenerWriteApplied(r)
  \/ \E r \in Requests : RefreshFails(r)
  \/ \E r \in Requests : RevokedTouchApplied(r)
  \/ \E r \in Requests : CheckConflictList(r)
  \/ \E r \in Requests : CheckConflictResponds(r)
  \/ \E r \in Requests : getIntegrationsController(r)
  \/ \E r \in Requests : updateIntegrationController(r)
  \/ \E r \in Requests : IntegrationSaved(r)
  \/ \E r \in Requests : Finish(r)

Spec == Init /\ [][Next]_vars

\* --------------------------- controllers/platforms/google (google.ts)
CalendarControllers ==
  {"checkConflictController", "createEventController",
   "editEventController", "deleteEventController",
   "fetchEventsController", "rescheduleEventController"}

\* the second arm of each controller's catch
Fallback(c) ==
  CASE c = "checkConflictController" -> "Unable to check for conflicts"
    [] c = "createEventController" -> "Unable to create event"
    [] c = "editEventController" -> "Failed to edit event"
    [] c = "deleteEventController" -> "Failed to delete event"
    [] c = "fetchEventsController" -> "Failed to fetch events"
    [] c = "rescheduleEventController" -> "Failed to reschedule event"

NotConnectedMessage == "Google is not connected for this user"

\* a catch that answers with the text of the error it caught
catchMessage_raw(err, fallback) == err

\* const message = error?.message === "Google client not initialized" ? ...
catchMessage(err, fallback) ==
  IF err = "Google client not initialized" THEN NotConnectedMessage
                                           ELSE fallback

\* the controller's try block is over: res.json on success, the catch's
\* res.status(400).json on an error of googleService() or of the remote call
CalendarResponds(r) ==
  /\ pc[r] = "done"
  /\ call[r].entry = "getGoogleService"
  /\ reply[r] = None
  /\ \E c \in CalendarControllers :
       reply' = [reply EXCEPT ![r] =
         << IF outcome[r] = "success"
              THEN [status |-> 200, message |-> "success", controller |-> c]
              ELSE [status |-> 400,
                    message |-> catchMessage(outcome[r], Fallback(c)),
                    controller |-> c] >>]
  /\ UNCHANGED << userVars, auth, now, integrations, issued, pc, call,
                  integration, client, pending, outcome, seen, stats >>

\* the request ends once it is answered
CalendarFinish(r) == reply[r] # None /\ Finish(r)

NextCalendar ==
  \/ Tick
  \/ \E r \in Requests : getGoogleService(r)
  \/ \E r \in Requests : FindOneResolved(r)
  \/ \E r \in Requests : RefreshSucceeds(r)
  \/ \E r \in Requests : ListenerWriteApplied(r)
  \/ \E r \in Requests : RefreshFails(r)
  \/ \E r \in Requests : RevokedTouchApplied(r)
  \/ \E r \in Requests : CheckConflictList(r)
  \/ \E r \in Requests : CheckConflictResponds(r)
  \/ \E r \in Requests : CalendarResponds(r)
  \/ \E r \in Requests : CalendarFinish(r)

SpecCalendar == Init /\ [][NextCalendar]_vars

\* ------------------------------ GoogleService.checkConflict (part_004)
\* what calendar.events.list may return for an event: a status, and a start
\* and an end that carry a dateTime (minutes after StartMs) or none
EventShapes ==
  [status : {"confirmed", "cancelled"},
   start : {None, Some(1), Some(3)},
   end : {None, Some(2), Some(4)}]

EventLists ==
  UNION {[1 .. n -> EventShapes] : n \in 0 .. MaxEvents}

\* res.data.items: the listed events, each with its id
Items(shapes) ==
  [i \in DOMAIN shapes |->
     [id |-> i, status |-> shapes[i].status, start |-> shapes[i].start,
      end |-> shapes[i].end]]

\* the requested interval (start_time, end_time)
Intervals == {<< 2, 3 >>, << 1, 4 >>, << 0, 1 >>}

\* an overlap test that counts touching intervals
overlaps_touching(eventStart, eventEnd, startTime, endTime) ==
  eventStart <= endTime /\ startTime <= eventEnd

\* eventStart < endTime && startTime < eventEnd
overlaps(eventStart, eventEnd, startTime, endTime) ==
  eventStart < endTime /\ startTime < eventEnd

\* the loop of checkConflict over the listed events
RECURSIVE checkConflict(_, _, _)
checkConflict(items, startTime, endTime) ==
  IF items = << >>
    THEN << >>
    ELSE LET event == Head(items)
             rest == checkConflict(Tail(items), startTime, endTime)
         IN IF event.status = "cancelled"
              THEN rest
              ELSE IF event.start = None \/ event.end = None
                     THEN rest
                     ELSE IF overlaps(Val(event.start), Val(event.end),
                                      startTime, endTime)
                            THEN << [id |-> event.id,
                                     start |-> event.start,
                                     end |-> event.end] >> \o rest
                            ELSE rest

\* checkConflictController once calendar.events.list has answered: the scan
\* and res.json({ success, conflict, conflicting_events })
checkConflictController(r) ==
  /\ pc[r] = "idle"
  /\ \E shapes \in EventLists, interval \in Intervals :
       LET items == Items(shapes)
           events == checkConflict(items, interval[1], interval[2])
       IN /\ call' = [call EXCEPT ![r] =
                        [entry |-> "checkConflictController",
                         items |-> items, start_time |-> interval[1],
                         end_time |-> interval[2]]]
          /\ reply' = [reply EXCEPT ![r] =
               << [status |-> 200, success |-> TRUE,
                   conflict |-> Len(events) > 0,
                   conflicting_events |-> events] >>]
  /\ pc' = [pc EXCEPT ![r] = "done"]
  /\ UNCHANGED << userVars, auth, now, integrations, issued, integration,
                  client, pending, outcome, seen, stats >>

NextConflict ==
  \/ \E r \in Requests : checkConflictController(r)
  \/ \E r \in Requests : Finish(r)

SpecConflict == Init /\ [][NextConflict]_vars

\* -------------------------------- editEventController (google.ts 131-222)
SeqsOver(S, n) == UNION {[1 .. k -> S] : k \in 0 .. n}

\* event.attendees mapped to { email }: the provider gives an attendee's
\* email "if available"
AttendeeLists == SeqsOver({None, Some("a@x"), Some("b@x")}, MaxAttendees)

\* changes.add_participants / changes.remove_participants: absent or a list
AddLists == {None} \cup {Some(l) : l \in SeqsOver({"a@x", "c@x"}, MaxAttendees)}
RemoveLists == {None} \cup {Some(l) : l \in SeqsOver({"a@x", "b@x"}, MaxAttendees)}

Includes(list, x) == \E i \in DOMAIN list : list[i] = x

\* attendees.filter(a => a.email && !remove_participants.includes(a.email))
RECURSIVE removeParticipants(_, _)
removeParticipants(attendees, remove) ==
  IF attendees = << >>
    THEN << >>
    ELSE LET a == Head(attendees)
             rest == removeParticipants(Tail(attendees), remove)
         IN IF a # None /\ ~Includes(remove, Val(a))
              THEN << a >> \o rest
              ELSE rest

\* for (const email of add_participants)
\*   if (!existingEmails.has(email)) attendees.push({ email })
RECURSIVE addParticipants(_, _, _)
addParticipants(attendees, add, existingEmails) ==
  IF add = << >>
    THEN attendees
    ELSE addParticipants(
           IF Head(add) \in existingEmails
             THEN attendees
             ELSE Append(attendees, Some(Head(add))),
           Tail(add), existingEmails)

\* payload.attendees of editEventController
editAttendees(existing, add, remove) ==
  LET filtered == IF remove # None
                    THEN removeParticipants(existing, Val(remove))
                    ELSE existing
      existingEmails ==
        {Val(filtered[i]) : i \in {j \in DOMAIN filtered : filtered[j] # None}}
  IN IF add # None
       THEN addParticipants(filtered, Val(add), existingEmails)
       ELSE filtered

\* editEventController with participants to add or remove, once fetchEvent
\* has answered: the attendee list goes out with calendar.events.patch
editEventController(r) ==
  /\ pc[r] = "idle"
  /\ \E existing \in AttendeeLists, add \in AddLists, remove \in RemoveLists :
       /\ add # None \/ remove # None
       /\ call' = [call EXCEPT ![r] =
                     [entry |-> "editEventController", attendees |-> existing,
                      add_participants |-> add,
                      remove_participants |-> remove]]
       /\ seen' = [seen EXCEPT ![r] =
            [NoSeen EXCEPT !.payload =
               Some([attendees |-> editAttendees(existing, add, remove)])]]
  /\ pc' = [pc EXCEPT ![r] = "done"]
  /\ UNCHANGED << userVars, reply, auth, now, integrations, issued,
                  integration, client, pending, outcome, stats >>

NextEdit ==
  \/ \E r \in Requests : editEventController(r)
  \/ \E r \in Requests : Finish(r)

SpecEdit == Init /\ [][NextEdit]_vars

\* PUT /integrations/:name over a store holding records of two users and
\* two providers
InitUpdate ==
  /\ auth = None
  /\ now = StartMs
  /\ issued = 0
  /\ integrations =
       {Doc(1, "u1", "google", Some(Token("grant", 1)),
            Some(Token("grant", 1)), Some(StartMs + 5 * MinuteMs),
            StartMs - MinuteMs),
        Doc(2, "u2", "google", Some(Token("grant", 2)), None, None,
            StartMs - MinuteMs),
        Doc(3, "u1", "slack", Some(Token("grant", 3)), None, None,
            StartMs - MinuteMs)}
  /\ pc = [r \in Requests |-> "idle"]
  /\ call = [r \in Requests |-> NoCall]
  /\ integration = [r \in Requests |-> None]
  /\ client = [r \in Requests |-> None]
  /\ pending = [r \in Requests |-> None]
  /\ outcome = [r \in Requests |-> "none"]
  /\ seen = [r \in Requests |-> NoSeen]
  /\ stats = [r \in Requests |-> ZeroStats]
  /\ reply = [r \in Requests |-> None]
  /\ users = {UserDoc("u1", "a@x", Some("A"), None, None, None)}
  /\ emails = {}
  /\ signed = {}

NextUpdate ==
  \/ Tick
  \/ \E r \in Requests : updateIntegrationController(r)
  \/ \E r \in Requests : IntegrationSaved(r)
  \/ \E r \in Requests : Finish(r)

SpecUpdate == InitUpdate /\ [][NextUpdate]_vars

\* ----------------------------------- controllers/auth (README.md 700-870)
\* jwt.sign(payload, JWT_SECRET, {expiresIn}): iat and exp are in seconds,
\* so the token is decided by the payload and the second it is signed in
SecondsOf(t) == t \div 1000
MagicTtl == 15 * 60
AccessTtl == 15 * 60
RefreshTtl == 30 * 24 * 60 * 60
MagicLinkMs == 15 * 60 * 1000

jwtSign(userId, type, ttl, t) ==
  [userId |-> userId, type |-> type, iat |-> SecondsOf(t),
   exp |-> SecondsOf(t) + ttl, secret |-> "JWT_SECRET"]

\* jwt.verify(token, JWT_SECRET): the signature and the exp claim
jwtVerify(token, t) ==
  token.secret = "JWT_SECRET" /\ SecondsOf(t) < token.exp

\* a token signed with another key
Forged == [jwtSign("u1", Some("magic"), MagicTtl, StartMs)
             EXCEPT !.secret = "other"]

\* user.save(): the modified paths go to the stored document
SaveUser(store, id, set) ==
  {IF u._id = id
     THEN [f \in DOMAIN u |-> IF f \in DOMAIN set THEN set[f] ELSE u[f]]
     ELSE u : u \in store}

AssignUser(u, set) ==
  [f \in DOMAIN u |-> IF f \in DOMAIN set THEN set[f] ELSE u[f]]

Respond(r, status, message) ==
  reply' = [reply EXCEPT ![r] =
              Append(@, [status |-> status, message |-> message])]

\* the clock of the sessions: steps long enough for a link to expire
TickAuthMs == 8 * MinuteMs

TickAuth ==
  /\ now < StartMs + MaxTicks * TickAuthMs
  /\ \A r \in DOMAIN pc : pc[r] = "idle"
  /\ now' = now + TickAuthMs
  /\ UNCHANGED << userVars, reply, auth, integrations, issued, pc, call,
                  integration, client, pending, outcome, seen, stats >>

\* req.body of POST /auth/magic-link: email absent stands for a body the
\* schema rejects
MagicBodies ==
  [email : {None, Some("a@x"), Some("b@x")}, name : {None, Some("B")}]

\* the _id a created user gets
NewUserId(email) == IF email = "a@x" THEN "u1" ELSE "u2"

\* requestMagicLinkController never asking for a name
nameRequired_never(found, name) == FALSE

\* if (!user) { if (!name) ... }
nameRequired(found, name) == found = None /\ name = None

\* requestMagicLinkController up to await UserModel.findOne({ email })
requestMagicLinkController(r) ==
  /\ pc[r] = "idle"
  /\ \E body \in MagicBodies :
       /\ call' = [call EXCEPT ![r] = [entry |-> "requestMagicLinkController",
                                       body |-> body]]
       /\ IF body.email = None
            THEN /\ Respond(r, 400, "Invalid email address")
                 /\ pc' = [pc EXCEPT ![r] = "done"]
            ELSE /\ reply' = reply
                 /\ pc' = [pc EXCEPT ![r] = "rml_findOne"]
  /\ UNCHANGED << userVars, auth, now, integrations, issued, integration,
                  client, pending, outcome, seen, stats >>

\* from jwt.sign of the magic link to await user.save()
StartMagicSave(r, user) ==
  LET magicLinkToken == jwtSign(user._id, Some("magic"), MagicTtl, now)
      set == [magicLinkToken |-> Some(magicLinkToken),
              magicLinkExpires |-> Some(now + MagicLinkMs)]
  IN /\ integration' = [integration EXCEPT ![r] = Some(AssignUser(user, set))]
     /\ pending' = [pending EXCEPT ![r] = Some([id |-> user._id, set |-> set])]
     /\ pc' = [pc EXCEPT ![r] = "rml_save"]

\* findOne resolves: 400 for an unknown email without a name, create for
\* one with a name, else the link is signed and the save started
MagicLinkUserLooked(r) ==
  /\ pc[r] = "rml_findOne"
  /\ LET body == call[r].body
         m == {u \in users : u.email = Val(body.email)}
         found == IF m = {} THEN None ELSE Some(CHOOSE u \in m : TRUE)
     IN /\ stats' = [stats EXCEPT ![r] = Bump(@, "reads")]
        /\ IF nameRequired(found, body.name)
             THEN /\ Respond(r, 400, "Name is required for new users.")
                  /\ pc' = [pc EXCEPT ![r] = "done"]
                  /\ UNCHANGED << integration, pending >>
             ELSE IF found = None
                    THEN /\ pc' = [pc EXCEPT ![r] = "rml_create"]
                         /\ UNCHANGED << reply, integration, pending >>
                    ELSE /\ StartMagicSave(r, Val(found))
                         /\ reply' = reply
  /\ UNCHANGED << userVars, auth, now, integrations, issued, call, client,
                  outcome, seen >>

\* UserModel.create({ email, name }) resolves; the link is signed
MagicLinkUserCreated(r) ==
  /\ pc[r] = "rml_create"
  /\ LET body == call[r].body
         user == UserDoc(NewUserId(Val(body.email)), Val(body.email),
                         body.name, None, None, None)
     IN /\ users' = users \cup {user}
        /\ StartMagicSave(r, user)
  /\ stats' = [stats EXCEPT ![r] = Bump(@, "writes")]
  /\ UNCHANGED << emails, signed, reply, auth, now, integrations, issued,
                  call, client, outcome, seen >>

\* user.save() resolves; resend.emails.send goes out
MagicLinkSaved(r) ==
  /\ pc[r] = "rml_save"
  /\ LET w == Val(pending[r])
     IN users' = SaveUser(users, w.id, w.set)
  /\ pending' = [pending EXCEPT ![r] = None]
  /\ stats' = [stats EXCEPT ![r] = Bump(@, "writes")]
  /\ pc' = [pc EXCEPT ![r] = "rml_send"]
  /\ UNCHANGED << emails, signed, reply, auth, now, integrations, issued,
                  call, integration, client, outcome, seen >>

\* the mail service answers; the one response of the successful path
MagicLinkSent(r) ==
  /\ pc[r] = "rml_send"
  /\ \E ok \in BOOLEAN :
       IF ok
         THEN /\ emails' = emails \cup
                   {[to |-> Val(call[r].body.email),
                     token |-> Val(Val(integration[r]).magicLinkToken)]}
              /\ Respond(r, 200, "Magic link sent if email exists.")
         ELSE /\ emails' = emails
              /\ Respond(r, 500, "Unable to send magic link")
  /\ pc' = [pc EXCEPT ![r] = "done"]
  /\ UNCHANGED << users, signed, auth, now, integrations, issued, call,
                  integration, client, pending, outcome, seen, stats >>

\* req.body.token / req.body.refreshToken: absent, or a token a client was
\* given (by mail or in a response), or one signed with another key
Presented ==
  {None} \cup {Some(t) : t \in {m.token : m \in emails} \cup signed
                                  \cup {Forged}}

\* a lookup by the user's id alone
magicLinkUser_anyToken(store, token) ==
  {u \in store : u._id = token.userId}

\* UserModel.findOne({ _id: decoded.userId, magicLinkToken: token })
magicLinkUser(store, token) ==
  {u \in store : u._id = token.userId /\ u.magicLinkToken = Some(token)}

\* !user || !user.magicLinkExpires || user.magicLinkExpires < new Date()
\* is false
magicLinkValid(found, t) ==
  /\ found # None
  /\ Val(found).magicLinkExpires # None
  /\ ~(Val(Val(found).magicLinkExpires) < t)

\* verifyMagicLinkController up to await UserModel.findOne
verifyMagicLinkController(r) ==
  /\ pc[r] = "idle"
  /\ \E token \in Presented :
       /\ call' = [call EXCEPT ![r] = [entry |-> "verifyMagicLinkController",
                                       token |-> token]]
       /\ IF token = None
            THEN /\ Respond(r, 400, "Missing token")
                 /\ pc' = [pc EXCEPT ![r] = "done"]
            ELSE IF ~jwtVerify(Val(token), now)
                   THEN /\ Respond(r, 401, "Invalid or expired magic link")
                        /\ pc' = [pc EXCEPT ![r] = "done"]
                   ELSE IF Val(token).type # Some("magic")
                          THEN /\ Respond(r, 401, "Invalid token type")
                               /\ pc' = [pc EXCEPT ![r] = "done"]
                          ELSE /\ reply' = reply
                               /\ pc' = [pc EXCEPT ![r] = "vml_findOne"]
  /\ UNCHANGED << userVars, auth, now, integrations, issued, integration,
                  client, pending, outcome, seen, stats >>

\* findOne({ _id: decoded.userId, magicLinkToken: token }) resolves; the
\* link is refused, or cleared in memory and the first save started
MagicLinkLooked(r) ==
  /\ pc[r] = "vml_findOne"
  /\ LET token == Val(call[r].token)
         m == magicLinkUser(users, token)
         found == IF m = {} THEN None ELSE Some(CHOOSE u \in m : TRUE)
         set == [magicLinkToken |-> None, magicLinkExpires |-> None]
     IN /\ stats' = [stats EXCEPT ![r] = Bump(@, "reads")]
        /\ IF ~magicLinkValid(found, now)
             THEN /\ Respond(r, 401, "Invalid or expired magic link")
                  /\ pc' = [pc EXCEPT ![r] = "done"]
                  /\ UNCHANGED << integration, pending >>
             ELSE /\ integration' = [integration EXCEPT ![r] =
                                      Some(AssignUser(Val(found), set))]
                  /\ pending' = [pending EXCEPT ![r] =
                                  Some([id |-> Val(found)._id, set |-> set])]
                  /\ pc' = [pc EXCEPT ![r] = "vml_clear"]
                  /\ reply' = reply
  /\ UNCHANGED << userVars, auth, now, integrations, issued, call, client,
                  outcome, seen >>

\* the first save resolves; the session refresh token is signed and the
\* second save started
MagicLinkCleared(r) ==
  /\ pc[r] = "vml_clear"
  /\ LET w == Val(pending[r])
         user == Val(integration[r])
         refreshToken == jwtSign(user._id, Some("refresh"), RefreshTtl, now)
         set == [refreshToken |-> Some(refreshToken)]
     IN /\ users' = SaveUser(users, w.id, w.set)
        /\ integration' = [integration EXCEPT ![r] =
                             Some(AssignUser(user, set))]
        /\ pending' = [pending EXCEPT ![r] =
                         Some([id |-> user._id, set |-> set])]
  /\ stats' = [stats EXCEPT ![r] = Bump(@, "writes")]
  /\ pc' = [pc EXCEPT ![r] = "vml_saveRefresh"]
  /\ UNCHANGED << emails, signed, reply, auth, now, integrations, issued, call,
                  client, outcome, seen >>

\* the second save resolves; the access token is signed and 200 sent
SessionSaved(r) ==
  /\ pc[r] = "vml_saveRefresh"
  /\ LET w == Val(pending[r])
         user == Val(integration[r])
         tokenJwt == jwtSign(user._id, None, AccessTtl, now)
     IN /\ users' = SaveUser(users, w.id, w.set)
        /\ signed' = signed \cup {Val(user.refreshToken)}
        /\ reply' = [reply EXCEPT ![r] =
             Append(@, [status |-> 200, message |-> "session",
                        token |-> tokenJwt,
                        refreshToken |-> Val(user.refreshToken)])]
  /\ pending' = [pending EXCEPT ![r] = None]
  /\ stats' = [stats EXCEPT ![r] = Bump(@, "writes")]
  /\ pc' = [pc EXCEPT ![r] = "done"]
  /\ UNCHANGED << emails, auth, now, integrations, issued, call,
                  integration, client, outcome, seen >>

\* refreshTokenController up to await UserModel.findOne
refreshTokenController(r) ==
  /\ pc[r] = "idle"
  /\ \E refreshToken \in Presented :
       /\ call' = [call EXCEPT ![r] = [entry |-> "refreshTokenController",
                                       refreshToken |-> refreshToken]]
       /\ IF refreshToken = None
            THEN /\ Respond(r, 400, "Missing refresh token")
                 /\ pc' = [pc EXCEPT ![r] = "done"]
            ELSE IF ~jwtVerify(Val(refreshToken), now)
                   THEN /\ Respond(r, 401, "Invalid or expired refresh token")
                        /\ pc' = [pc EXCEPT ![r] = "done"]
                   ELSE IF Val(refreshToken).type # Some("refresh")
                          THEN /\ Respond(r, 401, "Invalid refresh token type")
                               /\ pc' = [pc EXCEPT ![r] = "done"]
                          ELSE /\ reply' = reply
                               /\ pc' = [pc EXCEPT ![r] = "rt_findOne"]
  /\ UNCHANGED << userVars, auth, now, integrations, issued, integration,
                  client, pending, outcome, seen, stats >>

\* a lookup that does not compare the stored refresh token
sessionUser_anyToken(store, refreshToken) ==
  {u \in store : u._id = refreshToken.userId}

\* UserModel.findOne({ _id: decoded.userId, refreshToken })
sessionUser(store, refreshToken) ==
  {u \in store : u._id = refreshToken.userId
                   /\ u.refreshToken = Some(refreshToken)}

\* findOne resolves: a new access token, or 401
RefreshTokenLooked(r) ==
  /\ pc[r] = "rt_findOne"
  /\ LET refreshToken == Val(call[r].refreshToken)
         m == sessionUser(users, refreshToken)
         token == jwtSign(refreshToken.userId, None, AccessTtl, now)
     IN IF m = {}
          THEN Respond(r, 401, "Invalid refresh token")
          ELSE reply' = [reply EXCEPT ![r] =
                 Append(@, [status |-> 200, message |-> "token",
                            token |-> token])]
  /\ stats' = [stats EXCEPT ![r] = Bump(@, "reads")]
  /\ pc' = [pc EXCEPT ![r] = "done"]
  /\ UNCHANGED << userVars, auth, now, integrations, issued, call,
                  integration, client, pending, outcome, seen >>

\* no Integration plays a part in the sessions
InitAuth == InitOver(Requests) /\ integrations = {}

NextAuth ==
  \/ TickAuth
  \/ \E r \in Requests : requestMagicLinkController(r)
  \/ \E r \in Requests : MagicLinkUserLooked(r)
  \/ \E r \in Requests : MagicLinkUserCreated(r)
  \/ \E r \in Requests : MagicLinkSaved(r)
  \/ \E r \in Requests : MagicLinkSent(r)
  \/ \E r \in Requests : verifyMagicLinkController(r)
  \/ \E r \in Requests : MagicLinkLooked(r)
  \/ \E r \in Requests : MagicLinkCleared(r)
  \/ \E r \in Requests : SessionSaved(r)
  \/ \E r \in Requests : refreshTokenController(r)
  \/ \E r \in Requests : RefreshTokenLooked(r)
  \/ \E r \in Requests : Finish(r)

SpecAuth == InitAuth /\ [][NextAuth]_vars

\* several magic-link requests and verifications in flight at once
InitVerifyRace == InitOver(Concurrent) /\ integrations = {}

NextVerifyRace ==
  \/ \E r \in Concurrent : requestMagicLinkController(r)
  \/ \E r \in Concurrent : MagicLinkUserLooked(r)
  \/ \E r \in Concurrent : MagicLinkUserCreated(r)
  \/ \E r \in Concurrent : MagicLinkSaved(r)
  \/ \E r \in Concurrent : MagicLinkSent(r)
  \/ \E r \in Concurrent : verifyMagicLinkController(r)
  \/ \E r \in Concurrent : MagicLinkLooked(r)
  \/ \E r \in Concurrent : MagicLinkCleared(r)
  \/ \E r \in Concurrent : SessionSaved(r)
  \/ \E r \in Concurrent : Finish(r)

SpecVerifyRace == InitVerifyRace /\ [][NextVerifyRace]_vars

\* ------------------------------------ provisioning (GET /oauth/google/callback)
\* the store's create without its uniqueness constraint
Create_noConstraint(store, doc) == [ok |-> TRUE, store |-> store \cup {doc}]

\* Credential Store create: Conflict if (user_id, name) already exists
Create(store, doc) ==
  IF \E d \in store : d.user_id = doc.user_id /\ d.name = doc.name
    THEN [ok |-> FALSE, store |-> store]
    ELSE [ok |-> TRUE, store |-> store \cup {doc}]

\* the callback never finding the user connected
alreadyConnected_never(store, userId) == FALSE

\* the callback's test for an existing Google Integration of the user
alreadyConnected(store, userId) == FindOne(store, userId, "google") # None

\* req.query.code: absent or an authorization code
Codes == {None, Some("code")}

\* the callback up to the exchange of the authorization code
googleCallback(r) ==
  /\ pc[r] = "idle"
  /\ \E user \in ControllerUsers \ {None}, code \in Codes :
       /\ call' = [call EXCEPT ![r] = [entry |-> "googleCallback",
                                       user |-> user, code |-> code]]
       /\ IF code = None
            THEN /\ outcome' = [outcome EXCEPT ![r] = "400 Missing code"]
                 /\ pc' = [pc EXCEPT ![r] = "done"]
                 /\ stats' = stats
            ELSE /\ stats' = [stats EXCEPT ![r] = Bump(@, "reads")]
                 /\ IF alreadyConnected(integrations,
                                        toString(PrincipalOf(user)))
                      THEN /\ outcome' = [outcome EXCEPT ![r] =
                                "409 Google Account already connected"]
                           /\ pc' = [pc EXCEPT ![r] = "done"]
                      ELSE /\ outcome' = outcome
                           /\ pc' = [pc EXCEPT ![r] = "getToken"]
  /\ UNCHANGED << userVars, reply, auth >>
  /\ UNCHANGED << now, integrations, issued, integration, client,
                  pending, seen >>

\* getGoogleToken(code) after auth.getToken(code) resolved: the tokens go
\* into the module-level client and back to the callback, which starts
\* the store's create (_id 0: not assigned yet)
getGoogleToken(r) ==
  /\ pc[r] = "getToken"
  /\ issued < MaxIssued
  /\ LET tokens == [access_token |-> Some(Token("code", issued + 1)),
                    refresh_token |-> Some(Token("code", issued + 1)),
                    expiry_date |-> now + ExpiresInMs]
     IN /\ auth' = Some(tokens)
        /\ seen' = [seen EXCEPT ![r] =
                      [NoSeen EXCEPT !.access_token = tokens.access_token]]
        /\ pending' = [pending EXCEPT ![r] =
              Some([id |-> 0,
                    set |-> [access_token |-> tokens.access_token,
                             refresh_token |-> tokens.refresh_token,
                             expires_at |-> Some(tokens.expiry_date),
                             updated_at |-> Some(now)]])]
  /\ issued' = issued + 1
  /\ stats' = [stats EXCEPT ![r] = Bump(@, "writes")]
  /\ pc' = [pc EXCEPT ![r] = "create"]
  /\ UNCHANGED << userVars, reply, now, integrations, call, integration,
                  client, outcome >>

\* auth.getToken(code) rejects: getGoogleToken throws before setCredentials
getGoogleTokenRejected(r) ==
  /\ pc[r] = "getToken"
  /\ outcome' = [outcome EXCEPT ![r] = "invalid_grant"]
  /\ pc' = [pc EXCEPT ![r] = "done"]
  /\ UNCHANGED << userVars, reply, auth >>
  /\ UNCHANGED << now, integrations, issued, call, integration, client,
                  pending, seen, stats >>

\* the create reaches the store; the callback responds
IntegrationCreated(r) ==
  /\ pc[r] = "create"
  /\ LET w == Val(pending[r]).set
         doc == Doc(Cardinality(integrations) + 1,
                    toString(PrincipalOf(call[r].user)), "google",
                    w.access_token, w.refresh_token, w.expires_at,
                    Val(w.updated_at))
         res == Create(integrations, doc)
     IN /\ integrations' = res.store
        /\ integration' = [integration EXCEPT ![r] =
                             IF res.ok THEN Some(doc) ELSE None]
        /\ outcome' = [outcome EXCEPT ![r] =
                         IF res.ok
                           THEN "200 Google Account connected successfully"
                           ELSE "409 Google Account already connected"]
  /\ pending' = [pending EXCEPT ![r] = None]
  /\ pc' = [pc EXCEPT ![r] = "done"]
  /\ UNCHANGED << userVars, reply, auth >>
  /\ UNCHANGED << now, issued, call, client, seen, stats >>

InitProvision == InitOver(Concurrent)

NextProvision ==
  \/ \E r \in Concurrent : googleCallback(r)
  \/ \E r \in Concurrent : getGoogleToken(r)
  \/ \E r \in Concurrent : getGoogleTokenRejected(r)
  \/ \E r \in Concurrent : IntegrationCreated(r)
  \/ \E r \in Concurrent : Finish(r)

SpecProvision == InitProvision /\ [][NextProvision]_vars

\* ------------------------------------------ getGoogleOAuthUrl (part_002)
\* the arguments of getGoogleOAuthUrl(scopes, state?)
ScopeLists == {<< >>, << "calendar" >>, << "calendar", "email" >>}
States == {None, Some("s1"), Some("s2")}

\* an URL builder that puts the client's current credentials in the URL
generateAuthUrl_withCredentials(credentials, opts) ==
  [response_type |-> "code", client_id |-> "GOOGLE_CLIENT_ID",
   redirect_uri |-> "GOOGLE_REDIRECT_URI", access_type |-> opts.access_type,
   scope |-> opts.scope, state |-> opts.state, prompt |-> opts.prompt,
   include_granted_scopes |-> opts.include_granted_scopes,
   login_hint |-> credentials]

\* OAuth2Client.generateAuthUrl(opts): the query string of the consent URL,
\* built from the options and the client's id and redirect URI
generateAuthUrl(credentials, opts) ==
  [response_type |-> "code", client_id |-> "GOOGLE_CLIENT_ID",
   redirect_uri |-> "GOOGLE_REDIRECT_URI", access_type |-> opts.access_type,
   scope |-> opts.scope, state |-> opts.state, prompt |-> opts.prompt,
   include_granted_scopes |-> opts.include_granted_scopes]

\* getGoogleOAuthUrl(scopes, state): no await before the URL is returned
getGoogleOAuthUrl(r) ==
  /\ pc[r] = "idle"
  /\ \E scopes \in ScopeLists, state \in States :
       /\ call' = [call EXCEPT ![r] = [entry |-> "getGoogleOAuthUrl",
                                       scopes |-> scopes, state |-> state]]
       /\ reply' = [reply EXCEPT ![r] =
            << generateAuthUrl(auth,
                 [access_type |-> "offline", scope |-> scopes,
                  state |-> state, prompt |-> "consent",
                  include_granted_scopes |-> TRUE]) >>]
  /\ pc' = [pc EXCEPT ![r] = "done"]
  /\ UNCHANGED << userVars, auth, now, integrations, issued, integration,
                  client, pending, outcome, seen, stats >>

\* consent URLs asked for while callbacks exchange codes
NextOAuthUrl ==
  \/ \E r \in Concurrent : getGoogleOAuthUrl(r)
  \/ \E r \in Concurrent : googleCallback(r)
  \/ \E r \in Concurrent : getGoogleToken(r)
  \/ \E r \in Concurrent : getGoogleTokenRejected(r)
  \/ \E r \in Concurrent : IntegrationCreated(r)
  \/ \E r \in Concurrent : Finish(r)

SpecOAuthUrl == InitProvision /\ [][NextOAuthUrl]_vars

\* ------------------------------------------- concurrent getGoogleService
\* several POST /calendar/check-conflict requests in flight at once
InitRace == InitOver(Concurrent)

NextRace ==
  \/ \E r \in Concurrent : getGoogleService(r)
  \/ \E r \in Concurrent : FindOneResolved(r)
  \/ \E r \in Concurrent : RefreshSucceeds(r)
  \/ \E r \in Concurrent : ListenerWriteApplied(r)
  \/ \E r \in Concurrent : RefreshFails(r)
  \/ \E r \in Concurrent : RevokedTouchApplied(r)
  \/ \E r \in Concurrent : CheckConflictList(r)
  \/ \E r \in Concurrent : CheckConflictResponds(r)

SpecRace == InitRace /\ [][NextRace]_vars

\* --------------------------------------------- the listener on its own
NextListener ==
  \/ \E r \in Requests : getGoogleService(r)
  \/ \E r \in Requests : FindOneResolved(r)
  \/ \E r \in Requests : TokensEvent(r)
  \/ \E r \in Requests : ListenerWriteApplied(r)
  \/ \E r \in Requests : CheckConflictList(r)
  \/ \E r \in Requests : CheckConflictResponds(r)
  \/ \E r \in Requests : Finish(r)

SpecListener == Init /\ [][NextListener]_vars

\* ================================================================ claims
ClientEntries == {"getGoogleService", "getGoogleServiceByUserId"}
Unauthenticated == "User not authenticated"
UnauthorizedResources == "Unauthorized: Cannot access another user's resources"
UnauthorizedIntegrations ==
  "Unauthorized: Cannot access another user's integrations"
NotConnected == "No Google integration found"

\* the request went through findOne and found a document
Resolved(r) == call[r].entry \in ClientEntries /\ integration[r] # None
\* getGoogleService / getGoogleServiceByUserId has returned the client
Returned(r) ==
  /\ Resolved(r)
  /\ \/ pc[r] \in {"client", "remote"}
     \/ pc[r] = "done" /\ outcome[r] \in {"success", "remote_error"}
\* the document in the store with the id the request resolved
Stored(r) == {d \in integrations : d._id = Val(integration[r])._id}

\* C1: authorizeUserAccess with an authenticated principal A and resource
\* owner B returns true exactly when A and B are equal as strings and throws
\* the Unauthorized error exactly when they differ.
C1_AuthorizeIffSameUser ==
  \A r \in Requests :
    (pc[r] = "done" /\ call[r].entry = "authorizeUserAccess"
       /\ HasPrincipal(call[r].user))
    => /\ (outcome[r] = "true")
            <=> (PrincipalOf(call[r].user).hex = call[r].resourceUserId.hex)
       /\ (outcome[r] = UnauthorizedResources)
            <=> (PrincipalOf(call[r].user).hex # call[r].resourceUserId.hex)

C1_Witness ==
  \E r \in Requests :
    /\ pc[r] = "done" /\ call[r].entry = "authorizeUserAccess"
    /\ HasPrincipal(call[r].user)
    /\ PrincipalOf(call[r].user).hex # call[r].resourceUserId.hex
    /\ outcome[r] = UnauthorizedResources

\* C2: when the stored expires_at is absent or in the past, the returned
\* client never carries the access token that was read from the store, a
\* provider refresh was made before the return, and the calendar call never
\* goes out with that stored token.
C2_ExpiredAlwaysRefreshed ==
  \A r \in Requests :
    (Returned(r) /\ call[r].entry = "getGoogleService"
       /\ (seen[r].exp = 0 \/ seen[r].exp <= seen[r].now))
    => /\ stats[r].refreshCalls >= 1
       /\ Val(client[r]).access_token # seen[r].access_token
       /\ seen[r].bearer # seen[r].access_token

\* C3: with expires_at more than TOKEN_SKEW_MS ahead, getClient returns the
\* client, calls the provider zero times and starts no store write.
C3_FreshNoRefreshNoWrite ==
  \A r \in Requests :
    (Resolved(r) /\ seen[r].exp - seen[r].now > TOKEN_SKEW_MS)
    => /\ Returned(r)
       /\ stats[r].refreshCalls = 0
       /\ stats[r].writes = 0
       /\ pending[r] = None
       /\ Val(client[r]).access_token = seen[r].access_token

C3_Witness ==
  \E r \in Requests :
    /\ Resolved(r) /\ seen[r].exp - seen[r].now > TOKEN_SKEW_MS
    /\ pc[r] = "client"
    /\ integrations # {}

\* C4: with 0 < expires_at - now <= TOKEN_SKEW_MS (boundary included) the
\* provider refresh is called once; when it succeeds the returned client
\* carries the newly issued access token and expiry, one store write is
\* started, and when that write lands the stored access_token and expires_at
\* are the newly issued values.
NearExpiry(r) ==
  /\ Resolved(r)
  /\ seen[r].exp - seen[r].now > 0
  /\ seen[r].exp - seen[r].now <= TOKEN_SKEW_MS

C4_Returned(r) ==
  (NearExpiry(r) /\ pc[r] # "findOne")
  => /\ stats[r].refreshCalls = 1
     /\ Returned(r)
          => /\ Val(client[r]).access_token # seen[r].access_token
             /\ Val(Val(client[r]).access_token).by = "refresh"
             /\ Val(client[r]).expiry_date = seen[r].now + ExpiresInMs
             /\ stats[r].writes = 1

C4_WriteLands(r) ==
  (NearExpiry(r) /\ Returned(r) /\ pending[r] # None /\ pending'[r] = None)
  => \E d \in integrations' :
       /\ d._id = Val(integration[r])._id
       /\ d.access_token = Val(client[r]).access_token
       /\ d.expires_at = Some(Val(client[r]).expiry_date)

C5_PersistBeforeReturn ==
  \A r \in Requests : Returned(r) => pending[r] = None

\* C6: after an invalid_grant refresh failure getClient throws without a
\* second provider call, the Integration document still exists with
\* updated_at set to the time of the failure, and the write that touched it
\* changed nothing but updated_at.
C6_Thrown(r) ==
  (Resolved(r) /\ pc[r] = "done" /\ outcome[r] = "invalid_grant")
  => /\ stats[r].refreshCalls = 1
     /\ pending[r] = None
     /\ Stored(r) # {}
     /\ \A d \in Stored(r) : d.updated_at = now

C6_Touch(r) ==
  (Resolved(r) /\ outcome'[r] = "invalid_grant" /\ pc[r] # "done"
     /\ pc'[r] = "done")
  => \E d \in integrations :
       /\ d._id = Val(integration[r])._id
       /\ integrations' =
            (integrations \ {d}) \cup {[d EXCEPT !.updated_at = now]}

C6_RevokedKeepsRecord ==
  /\ [](\A r \in Requests : C6_Thrown(r))
  /\ [][\A r \in Requests : C6_Touch(r)]_vars

C6_Witness ==
  \E r \in Requests :
    /\ Resolved(r) /\ pc[r] = "done" /\ outcome[r] = "invalid_grant"
    /\ \E d \in Stored(r) :
         /\ d.updated_at = now
         /\ d.access_token = seen[r].access_token

\* C7: after a refresh failure other than invalid_grant getClient throws that
\* error with one provider call made and no store write started, and the
\* failing step leaves the collection as it was.
TransientErrors == RefreshErrors \ {"invalid_grant"}

C7_Thrown(r) ==
  (Resolved(r) /\ pc[r] = "done" /\ outcome[r] \in TransientErrors)
  => /\ stats[r].refreshCalls = 1
     /\ stats[r].writes = 0
     /\ pending[r] = None

C7_NoWrite(r) ==
  (Resolved(r) /\ pc[r] = "refreshing" /\ outcome'[r] \in TransientErrors)
  => /\ integrations' = integrations
     /\ pc'[r] = "done"

C7_TransientPropagates ==
  /\ [](\A r \in Requests : C7_Thrown(r))
  /\ [][\A r \in Requests : C7_NoWrite(r)]_vars

C7_Witness ==
  \E r \in Requests :
    /\ Resolved(r) /\ pc[r] = "done" /\ outcome[r] = "server_error"
    /\ stats[r].refreshCalls = 1

\* C8: getGoogleService for an authenticated user without a Google
\* Integration throws "No Google integration found", having built no client,
\* called no provider and started no write.
C8_Lookup(r) ==
  (pc[r] = "findOne" /\ call[r].entry = "getGoogleService" /\ pc'[r] # "findOne"
     /\ ~ \E d \in integrations :
            d.user_id = PrincipalOf(call[r].user).hex /\ d.name = "google")
  => /\ pc'[r] = "done"
     /\ outcome'[r] = NotConnected
     /\ client'[r] = None
     /\ stats'[r] = [ZeroStats EXCEPT !.reads = 1]
     /\ pending'[r] = None
     /\ integrations' = integrations

C8_NotConnected == [][\A r \in Requests : C8_Lookup(r)]_vars

C8_Witness ==
  \E r \in Requests :
    /\ pc[r] = "done" /\ call[r].entry = "getGoogleService"
    /\ outcome[r] = NotConnected
    /\ integrations # {}

\* C9: getGoogleServiceByUserId with userId different from requestingUserId
\* throws the Unauthorized error before any store read, whatever the store
\* holds for userId.
C9_OtherUserUnauthorized ==
  \A r \in Requests :
    (call[r].entry = "getGoogleServiceByUserId"
       /\ call[r].userId # call[r].requestingUserId)
    => /\ pc[r] = "done"
       /\ outcome[r] = UnauthorizedIntegrations
       /\ stats[r] = ZeroStats
       /\ integration[r] = None
       /\ client[r] = None

C9_Witness ==
  \E r \in Requests :
    /\ call[r].entry = "getGoogleServiceByUserId"
    /\ call[r].userId # call[r].requestingUserId
    /\ outcome[r] = UnauthorizedIntegrations
    /\ \E d \in integrations : d.user_id = call[r].userId /\ d.name = "google"

\* C10: a request that ends in the Unauthenticated or an Unauthorized error
\* has made no store read, no store write and no provider call.
AuthFailures ==
  {Unauthenticated, UnauthorizedResources, UnauthorizedIntegrations,
   "403 Unauthorized: Cannot access another user's resources"}

C10_AuthFailsBeforeStore ==
  \A r \in Requests :
    (call[r].entry # "authorizeUserAccess" /\ outcome[r] \in AuthFailures)
    => /\ stats[r] = ZeroStats
       /\ integration[r] = None
       /\ client[r] = None
       /\ pending[r] = None

C10_Witness ==
  \E r \in Requests :
    /\ call[r].entry = "getGoogleService"
    /\ outcome[r] = Unauthenticated
    /\ integrations # {}
\* the identity of the caller that the entry point has at hand: the
\* principal on req.user, or the requestingUserId argument
CallerOf(c) ==
  IF "user" \in DOMAIN c
    THEN IF HasPrincipal(c.user)
           THEN Some(toString(PrincipalOf(c.user))) ELSE None
    ELSE IF "requestingUserId" \in DOMAIN c
           THEN Some(c.requestingUserId) ELSE None

\* the documents a request holds after its store lookup
HeldDocs(r) ==
  IF integration[r] = None THEN {}
  ELSE IF call[r].entry = "getIntegrationsController" /\ call[r].name = None
         THEN Val(integration[r])
         ELSE {Val(integration[r])}

\* C11: every code path that hands out an Integration (or a client built
\* from one) has first checked the caller against the owner of the record;
\* no operation looks a record up by a caller-supplied user id alone and
\* returns it without that check.
C11_GateBeforeReturn ==
  \A r \in Requests :
    HeldDocs(r) # {} =>
      /\ CallerOf(call[r]) # None
      /\ \A d \in HeldDocs(r) : d.user_id = Val(CallerOf(call[r]))

\* C12: a record owned by user B is never returned to, nor modified by, a
\* request whose verified principal is A # B: every document a request with
\* a principal holds, and every document its store write addresses, is
\* owned by that principal.
HasVerifiedPrincipal(r) ==
  "user" \in DOMAIN call[r] /\ HasPrincipal(call[r].user)

C12_OwnRecordsOnly ==
  \A r \in Requests :
    HasVerifiedPrincipal(r) =>
      LET a == toString(PrincipalOf(call[r].user))
      IN /\ \A d \in HeldDocs(r) : d.user_id = a
         /\ pending[r] # None =>
              \A d \in integrations :
                d._id = Val(pending[r]).id => d.user_id = a

C12_Witness ==
  \E r \in Requests :
    /\ call[r].entry = "updateIntegrationController"
    /\ HasVerifiedPrincipal(r)
    /\ toString(PrincipalOf(call[r].user)) = "u2"
    /\ call[r].name = "google"
    /\ pc[r] = "done" /\ outcome[r] = "404 Integration not found"
    /\ \E d \in integrations : d.user_id = "u1" /\ d.name = "google"

\* C13: authorizeUserAccess and getGoogleService, called without req.user or
\* without req.user._id, fail with "User not authenticated"; no user is
\* assumed, and neither true nor a client comes back.
C13_NoPrincipalFails ==
  \A r \in Requests :
    (call[r].entry \in {"authorizeUserAccess", "getGoogleService"}
       /\ ~HasPrincipal(call[r].user))
    => /\ pc[r] = "done"
       /\ outcome[r] = Unauthenticated
       /\ integration[r] = None
       /\ client[r] = None
       /\ stats[r] = ZeroStats

C13_Witness ==
  \E r \in Requests :
    /\ call[r].entry = "authorizeUserAccess"
    /\ call[r].user = Some(None)
    /\ outcome[r] = Unauthenticated
    /\ integrations # {}

\* C14: concurrent getGoogleService requests on the same near-expiry
\* Integration may each refresh; whatever the interleaving of the provider
\* calls and the store writes, each returned client carries a token the
\* provider issued on that request's own refresh, and once every write
\* has landed the stored access_token is one of those tokens.
Refreshed(r) == Returned(r) /\ stats[r].refreshCalls = 1
Quiescent ==
  \A r \in Concurrent :
    pc[r] \notin {"findOne", "refreshing", "revoked"} /\ pending[r] = None

C14_LastWriteWins ==
  LET R == {r \in Concurrent : Refreshed(r)}
      carried(r) == Val(client[r]).access_token
  IN /\ \A r \in R :
          /\ \E k \in 1 .. issued : carried(r) = Some(Token("refresh", k))
          /\ \A q \in R \ {r} : carried(q) # carried(r)
     /\ Quiescent =>
          \A r \in R : \A d \in Stored(r) :
            d.access_token \in {carried(q) : q \in R}

C14_Witness ==
  /\ Quiescent
  /\ \A r \in Concurrent : Refreshed(r) /\ NearExpiry(r)
  /\ \E r \in Concurrent, q \in Concurrent :
       /\ Val(client[r]).access_token = Some(Token("refresh", 1))
       /\ Val(client[q]).access_token = Some(Token("refresh", 2))
       /\ \A d \in Stored(r) : d.access_token = Some(Token("refresh", 1))

\* C15: concurrent requests share no mutable in-process state: whatever
\* OAuth client credentials a request in flight can observe were put there
\* by that request itself, the code exchange getGoogleToken included.
C15_NoSharedClientState ==
  \A r \in Concurrent :
    (pc[r] \notin {"idle", "done"} /\ auth # None)
    => Val(auth).access_token = seen[r].access_token

\* the step in which the listener's updateOne of request r lands
ListenerLands(r) ==
  /\ call[r].entry \in ClientEntries
  /\ seen[r].tokens # None
  /\ pending[r] # None /\ pending'[r] = None

\* C16: when the token response of a successful refresh carries no
\* refresh_token, the listener's write leaves the stored refresh_token as
\* it was; when it carries one, that one is stored.
C16_Lands(r) ==
  ListenerLands(r) =>
    \A d \in integrations : \A e \in integrations' :
      d._id = e._id =>
        e.refresh_token =
          IF d._id = Val(pending[r]).id
               /\ Val(seen[r].tokens).refresh_token # None
            THEN Val(seen[r].tokens).refresh_token
            ELSE d.refresh_token

C16_RefreshTokenKept == [][\A r \in Requests : C16_Lands(r)]_vars

C16_Witness ==
  \E r \in Requests :
    /\ Refreshed(r) /\ pending[r] = None
    /\ Val(seen[r].tokens).refresh_token = None
    /\ \A d \in Stored(r) :
         /\ d.access_token = Val(seen[r].tokens).access_token
         /\ d.refresh_token = Some(Token("grant", 1))

\* C17: the listener writes only what differs from the in-memory
\* Integration: if access token, refresh token and expiry of the event are
\* absent or equal to the in-memory values nothing is written; otherwise
\* the write holds exactly the changed fields and updated_at, and when it
\* lands the in-memory copy and the stored record take those values.
Changed(tokens, doc) ==
  [access_token |-> tokens.access_token # None
                      /\ tokens.access_token # doc.access_token,
   refresh_token |-> tokens.refresh_token # None
                      /\ tokens.refresh_token # doc.refresh_token,
   expires_at |-> tokens.expiry_date # 0
                      /\ Some(tokens.expiry_date) # doc.expires_at]

C17_Event(r) ==
  (pc[r] = "refreshing" /\ pc'[r] = "client") =>
    LET tokens == Val(seen'[r].tokens)
        doc == Val(integration[r])
        ch == Changed(tokens, doc)
    IN IF ~ch.access_token /\ ~ch.refresh_token /\ ~ch.expires_at
         THEN /\ pending'[r] = None
              /\ stats'[r].writes = 0
         ELSE /\ pending'[r] # None
              /\ stats'[r].writes = 1
              /\ LET w == Val(pending'[r])
                 IN /\ w.id = doc._id
                    /\ w.set.access_token =
                         IF ch.access_token THEN tokens.access_token ELSE None
                    /\ w.set.refresh_token =
                         IF ch.refresh_token THEN tokens.refresh_token ELSE None
                    /\ w.set.expires_at =
                         IF ch.expires_at THEN Some(tokens.expiry_date) ELSE None
                    /\ w.set.updated_at = Some(now)

C17_Lands(r) ==
  ListenerLands(r) =>
    LET w == Val(pending[r])
        took(e, d) ==
          /\ e.access_token = IF w.set.access_token # None
                                THEN w.set.access_token ELSE d.access_token
          /\ e.refresh_token = IF w.set.refresh_token # None
                                 THEN w.set.refresh_token ELSE d.refresh_token
          /\ e.expires_at = IF w.set.expires_at # None
                              THEN w.set.expires_at ELSE d.expires_at
          /\ e.updated_at = Val(w.set.updated_at)
    IN /\ took(Val(integration'[r]), Val(integration[r]))
       /\ \A d \in integrations : \A e \in integrations' :
            d._id = e._id => IF d._id = w.id THEN took(e, d) ELSE e = d

C17_Unwritten(r) ==
  (call[r].entry \in ClientEntries /\ seen[r].tokens # None
     /\ stats[r].writes = 0)
  => /\ pending[r] = None
     /\ pending'[r] = None

\* the collection changes only in a step in which a started write lands
C17_NoOtherWrite ==
  integrations' # integrations =>
    \E q \in Requests : pending[q] # None /\ pending'[q] = None

C17_OnlyChangedFields ==
  [][/\ \A r \in Requests :
          C17_Event(r) /\ C17_Lands(r) /\ C17_Unwritten(r)
     /\ C17_NoOtherWrite]_vars

C17_Witness ==
  \E r \in Requests :
    /\ call[r].entry = "getGoogleService" /\ pc[r] = "done"
    /\ seen[r].tokens # None
    /\ Val(seen[r].tokens).access_token = seen[r].access_token
    /\ stats[r].writes = 0
    /\ Val(integration[r]) \in integrations

\* C18: a write that changes the access_token, refresh_token or expires_at
\* of a stored Integration (the listener's updateOne, the save of
\* PUT /integrations/:name) carries updated_at, and the record has that
\* updated_at once the write has landed.
C18_Write(r) ==
  (pending[r] # None /\ pending'[r] = None) =>
    \A d \in integrations : \A e \in integrations' :
      (d._id = e._id
         /\ \/ d.access_token # e.access_token
            \/ d.refresh_token # e.refresh_token
            \/ d.expires_at # e.expires_at)
      => /\ Val(pending[r]).set.updated_at # None
         /\ e.updated_at = Val(Val(pending[r]).set.updated_at)
         /\ e.updated_at >= seen[r].now

C18_TokenChangeSetsUpdatedAt ==
  [][/\ \A r \in Requests : C18_Write(r)
     /\ (\A r \in Requests : pending[r] = None \/ pending'[r] # None)
          => integrations' = integrations]_vars

C18_Witness ==
  \E d \in integrations :
    /\ d.access_token = Some(Token("put", 1))
    /\ d.refresh_token = Some(Token("refresh", 1))
    /\ d.updated_at = StartMs + MinuteMs

\* C19: an OAuth callback carrying a code for a user who already has a
\* Google Integration ends in 409 "Google Account already connected"
\* without going to the provider, and a callback that ends in 409 leaves
\* the collection as it was, the user's record still there.
AlreadyConnected == "409 Google Account already connected"

C19_Callback(r) ==
  (pc[r] = "idle" /\ call'[r].entry = "googleCallback"
     /\ call'[r].code # None
     /\ \E d \in integrations :
          /\ d.user_id = toString(PrincipalOf(call'[r].user))
          /\ d.name = "google")
  => /\ pc'[r] = "done"
     /\ outcome'[r] = AlreadyConnected
     /\ stats'[r].writes = 0

C19_Refused(r) ==
  (outcome[r] # AlreadyConnected /\ outcome'[r] = AlreadyConnected)
  => /\ integrations' = integrations
     /\ pending'[r] = None
     /\ \E d \in integrations :
          /\ d.user_id = toString(PrincipalOf(call'[r].user))
          /\ d.name = "google"

C19_SecondProvisionRefused ==
  [][\A r \in Concurrent : C19_Callback(r) /\ C19_Refused(r)]_vars

C19_Witness ==
  \E r \in Concurrent :
    /\ call[r].entry = "googleCallback"
    /\ pc[r] = "done" /\ outcome[r] = AlreadyConnected
    /\ stats[r] = [ZeroStats EXCEPT !.reads = 1]
    /\ \E d \in integrations :
         /\ d.user_id = toString(PrincipalOf(call[r].user))
         /\ d.access_token = Some(Token("code", 1))

\* C20: the collection never holds two Integrations with the same user and
\* the same provider name, concurrent callbacks of one user included.
C20_OnePerUserProvider ==
  \A d \in integrations : \A e \in integrations :
    (d.user_id = e.user_id /\ d.name = e.name) => d = e

C20_Witness ==
  /\ \A r \in Concurrent :
       /\ call[r].entry = "googleCallback"
       /\ toString(PrincipalOf(call[r].user)) = "u2"
       /\ pc[r] = "done"
       /\ stats[r].writes = 1
  /\ \E r \in Concurrent : outcome[r] = AlreadyConnected
  /\ Cardinality({d \in integrations : d.user_id = "u2"}) = 1

\* ------------------------------------------------------- sessions (C21..)
\* request r of this controller has been answered with this status
Answered(r, entry, status) ==
  /\ pc[r] = "done"
  /\ call[r].entry = entry
  /\ reply[r] # None
  /\ reply[r][Len(reply[r])].status = status

\* C21: a magic-link token is single-use: of the calls of
\* verifyMagicLinkController presenting one token, whatever their
\* interleaving, at most one is answered 200
C21_SingleUse ==
  \A r, q \in DOMAIN pc :
    (/\ r # q
     /\ Answered(r, "verifyMagicLinkController", 200)
     /\ Answered(q, "verifyMagicLinkController", 200))
      => call[r].token # call[q].token
\* the refresh tokens handed out for this user, and the latest of them
IssuedTo(tokens, userId) == {t \in tokens : t.userId = userId}

Newest(tokens, userId) ==
  CHOOSE t \in IssuedTo(tokens, userId) :
    \A o \in IssuedTo(tokens, userId) : o.iat <= t.iat

LastReply(r) == reply[r][Len(reply[r])]

\* request r's lookup of refreshTokenController resolves in this step
C22_Lookup(r) == pc[r] = "rt_findOne" /\ pc'[r] = "done"

\* request r's verification hands out its session in this step
C22_Issues(r) == pc[r] = "vml_saveRefresh" /\ pc'[r] = "done"

\* C22: only the most recently issued session refresh token of a user is
\* active: a verification that issues one stores it, and
\* refreshTokenController answers 200 with an access token for the newest
\* one and 401 with no token for every one issued before
C22_NewestOnly ==
  [][\A r \in DOMAIN pc :
       /\ C22_Issues(r) =>
            LET given == LastReply(r)'.refreshToken
            IN /\ given = Newest(signed', given.userId)
               /\ \E u \in users' : /\ u._id = given.userId
                                    /\ u.refreshToken = Some(given)
       /\ C22_Lookup(r) =>
            LET t == Val(call[r].refreshToken)
            IN IF t = Newest(signed, t.userId)
                 THEN /\ LastReply(r)'.status = 200
                      /\ "token" \in DOMAIN LastReply(r)'
                 ELSE /\ LastReply(r)'.status = 401
                      /\ "token" \notin DOMAIN LastReply(r)']_vars

\* an earlier refresh token of a user with a newer session was refused
C22_Witness ==
  \E r \in DOMAIN pc :
    /\ Answered(r, "refreshTokenController", 401)
    /\ call[r].refreshToken # None
    /\ Val(call[r].refreshToken) \in signed
    /\ Val(call[r].refreshToken) # Newest(signed, Val(call[r].refreshToken).userId)
\* --------------------------------------------- PUT /integrations/:name
\* the fields of an Integration the update may write
TokenFields == {"access_token", "refresh_token", "expires_at"}

\* request r's integration.save() lands in this step
C23_Saves(r) ==
  /\ call[r].entry = "updateIntegrationController"
  /\ pc[r] = "save" /\ pc'[r] = "done"

\* C23: PUT /integrations/:name changes no record but the authenticated
\* user's Integration of that name: the store changes only when a save of
\* the controller lands, an absent record is answered 404 with no write,
\* and a save changes, of that one record, exactly the fields of
\* access_token, refresh_token and expires_at present in the body, plus
\* updated_at
C23_OnlyOwnNamedRecord ==
  [][/\ integrations' # integrations => \E r \in DOMAIN pc : C23_Saves(r)
     /\ \A r \in DOMAIN pc :
          /\ (pc[r] = "idle" /\ pc'[r] # "idle"
                /\ HasPrincipal(call'[r].user)) =>
               LET mine == {d \in integrations :
                              /\ d.user_id =
                                   toString(PrincipalOf(call'[r].user))
                              /\ d.name = call'[r].name}
               IN IF mine = {}
                    THEN /\ outcome'[r] = "404 Integration not found"
                         /\ pc'[r] = "done"
                         /\ pending'[r] = None
                    ELSE /\ pc'[r] = "save"
                         /\ pending'[r] # None
                         /\ \E d \in mine : d._id = Val(pending'[r]).id
          /\ C23_Saves(r) =>
               LET body == call[r].body
                   id == Val(pending[r]).id
               IN /\ outcome'[r] = "200"
                  /\ \A d \in integrations :
                       d._id # id => d \in integrations'
                  /\ \A d \in integrations :
                       d._id = id =>
                         \E e \in integrations' :
                           /\ e._id = id
                           /\ e.user_id = d.user_id /\ e.name = d.name
                           /\ d.user_id =
                                toString(PrincipalOf(call[r].user))
                           /\ d.name = call[r].name
                           /\ \A f \in TokenFields :
                                e[f] = IF body[f] # None THEN body[f]
                                                         ELSE d[f]
                           /\ e.updated_at = now
                  /\ Cardinality(integrations') = Cardinality(integrations)
    ]_vars

\* user u1's Google record was updated with a body carrying only
\* access_token, next to records of another user and another provider
C23_Witness ==
  \E r \in DOMAIN pc :
    /\ call[r].entry = "updateIntegrationController"
    /\ pc[r] = "done" /\ outcome[r] = "200"
    /\ call[r].name = "google"
    /\ toString(PrincipalOf(call[r].user)) = "u1"
    /\ call[r].body.access_token # None
    /\ call[r].body.refresh_token = None
    /\ call[r].body.expires_at = None
    /\ \E d \in integrations :
         /\ d.user_id = "u1" /\ d.name = "google"
         /\ d.access_token = call[r].body.access_token
         /\ d.refresh_token = Some(Token("grant", 1))
         /\ d.updated_at = now
    /\ \E d \in integrations : d.user_id = "u2" /\ d.name = "google"
    /\ \E d \in integrations : d.user_id = "u1" /\ d.name = "slack"
\* ------------------------------------------------- calendar responses
\* request r is a calendar request that has been answered
CalendarAnswered(r) ==
  /\ pc[r] = "done"
  /\ call[r].entry = "getGoogleService"
  /\ reply[r] # None

\* the user of request r has no Google Integration
UserNotConnected(r) == outcome[r] = NotConnected

\* C24: a calendar request of a user with no Google Integration is answered
\* "Google is not connected for this user", and no other calendar request
\* is answered with that message
C24_NotConnectedDistinct ==
  \A r \in DOMAIN pc :
    CalendarAnswered(r) =>
      (LastReply(r).message = NotConnectedMessage <=> UserNotConnected(r))

\* every message a calendar controller's catch is written to send
FixedMessages ==
  {NotConnectedMessage} \cup {Fallback(c) : c \in CalendarControllers}

\* C25: when googleService() or the remote operation fails, the response of
\* a calendar controller has status 400 and one of the controller's fixed
\* messages, never the text of the error
C25_NoRawErrorText ==
  \A r \in DOMAIN pc :
    (CalendarAnswered(r) /\ outcome[r] # "success") =>
      /\ LastReply(r).status = 400
      /\ LastReply(r).message \in FixedMessages
      /\ LastReply(r).message # outcome[r]
      /\ LastReply(r).message \in
           {NotConnectedMessage, Fallback(LastReply(r).controller)}

\* the provider refused the remote operation and the request was answered
C25_Witness ==
  \E r \in DOMAIN pc :
    /\ CalendarAnswered(r)
    /\ outcome[r] = "remote_error"
    /\ LastReply(r).controller = "rescheduleEventController"
    /\ LastReply(r).message = "Failed to reschedule event"
\* --------------------------------------------------- getGoogleOAuthUrl
\* request r is a call of getGoogleOAuthUrl that has returned
UrlReturned(r) == pc[r] = "done" /\ call[r].entry = "getGoogleOAuthUrl"

\* C26: every URL of getGoogleOAuthUrl asks for offline access and forces
\* consent and carries the given scopes and state, and two calls with the
\* same (scopes, state) return the same URL
C26_OfflineConsentDeterministic ==
  /\ \A r \in DOMAIN pc :
       UrlReturned(r) =>
         /\ LastReply(r).access_type = "offline"
         /\ LastReply(r).prompt = "consent"
         /\ LastReply(r).scope = call[r].scopes
         /\ LastReply(r).state = call[r].state
  /\ \A r, q \in DOMAIN pc :
       (/\ UrlReturned(r) /\ UrlReturned(q)
        /\ call[r].scopes = call[q].scopes
        /\ call[r].state = call[q].state)
         => LastReply(r) = LastReply(q)

\* two calls with the same arguments have returned, a callback having put
\* credentials into the shared client
C26_Witness ==
  \E r, q \in DOMAIN pc :
    /\ r # q
    /\ UrlReturned(r) /\ UrlReturned(q)
    /\ call[r] = call[q]
    /\ call[r].scopes = << "calendar", "email" >>
    /\ call[r].state = Some("s1")
    /\ auth # None
\* --------------------------------------------------------- checkConflict
\* the positions of the listed events that conflict with the interval
Conflicting(items, startTime, endTime) ==
  {i \in DOMAIN items :
     /\ items[i].status # "cancelled"
     /\ items[i].start # None /\ items[i].end # None
     /\ Val(items[i].start) < endTime
     /\ startTime < Val(items[i].end)}

\* the k-th position of a set of positions, in list order
Nth(positions, k) ==
  CHOOSE i \in positions : Cardinality({j \in positions : j < i}) = k - 1

\* C27: the events checkConflict returns are exactly the listed events that
\* are not cancelled, have a start and an end dateTime and overlap the
\* interval (eventStart < end and start < eventEnd), in list order, and the
\* response's conflict flag is true iff there is one
C27_ExactlyOverlapping ==
  \A r \in DOMAIN pc :
    (pc[r] = "done" /\ call[r].entry = "checkConflictController") =>
      LET items == call[r].items
          keep == Conflicting(items, call[r].start_time, call[r].end_time)
          events == LastReply(r).conflicting_events
      IN /\ Len(events) = Cardinality(keep)
         /\ \A k \in 1 .. Len(events) :
              /\ events[k].id = items[Nth(keep, k)].id
              /\ events[k].start = items[Nth(keep, k)].start
              /\ events[k].end = items[Nth(keep, k)].end
         /\ LastReply(r).conflict = (keep # {})

\* of two listed events the one touching the interval was left out and the
\* overlapping one returned
C27_Witness ==
  \E r \in DOMAIN pc :
    /\ pc[r] = "done" /\ call[r].entry = "checkConflictController"
    /\ call[r].start_time = 2 /\ call[r].end_time = 3
    /\ Len(call[r].items) = 2
    /\ call[r].items[1].status = "confirmed"
    /\ call[r].items[1].start = Some(1) /\ call[r].items[1].end = Some(2)
    /\ call[r].items[2].status = "confirmed"
    /\ call[r].items[2].start = Some(1) /\ call[r].items[2].end = Some(4)
    /\ Len(LastReply(r).conflicting_events) = 1
    /\ LastReply(r).conflicting_events[1].id = 2
    /\ LastReply(r).conflict
\* ------------------------------------------------------- magic links
\* request r's lookup of requestMagicLinkController resolves in this step
\* for an email no user has, the body carrying no name
C28_UnknownNoName(r) ==
  /\ pc[r] = "rml_findOne" /\ pc'[r] # "rml_findOne"
  /\ call[r].body.name = None
  /\ \A u \in users : u.email # Val(call[r].body.email)

C29_Passes(r) == pc[r] = "vml_findOne" /\ pc'[r] = "vml_clear"

\* request r's verification is refused in this step
C29_Refused(r) ==
  /\ call'[r].entry = "verifyMagicLinkController"
  /\ pc[r] \in {"idle", "vml_findOne"}
  /\ pc'[r] = "done"

\* C29: a verification passes only if the presented token is the user's
\* stored magicLinkToken and magicLinkExpires is not in the past, so a
\* token superseded by a newer link is refused; and a refused verification
\* changes no user record and hands out no session
C29_StoredUnexpiredOnly ==
  [][\A r \in DOMAIN pc :
       /\ C29_Passes(r) =>
            \E u \in users :
              /\ u._id = Val(call[r].token).userId
              /\ u.magicLinkToken = call[r].token
              /\ u.magicLinkExpires # None
              /\ Val(u.magicLinkExpires) >= now
       /\ C29_Refused(r) =>
            /\ LastReply(r)'.status \in {400, 401}
            /\ DOMAIN LastReply(r)' = {"status", "message"}
            /\ users' = users
            /\ signed' = signed]_vars

\* a link that was mailed and then superseded by a newer one was presented
\* before its expiry and refused at the lookup
C29_Witness ==
  \E r \in DOMAIN pc :
    /\ Answered(r, "verifyMagicLinkController", 401)
    /\ stats[r].reads = 1
    /\ \E m \in emails : Some(m.token) = call[r].token
    /\ \E u \in users :
         /\ u._id = Val(call[r].token).userId
         /\ u.magicLinkToken # None
         /\ u.magicLinkToken # call[r].token
\* ----------------------------------------------------------- edit event
\* the positions of a list whose entry has an email outside a list of emails
Kept(attendees, remove) ==
  {i \in DOMAIN attendees :
     /\ attendees[i] # None
     /\ remove # None => ~Includes(Val(remove), Val(attendees[i]))}

\* the positions of a list of emails whose email is not among these emails
Added(add, present) ==
  IF add = None THEN {}
  ELSE {i \in DOMAIN Val(add) : Val(add)[i] \notin present}

\* C30: the attendee list editEventController sends is the existing
\* attendees that have an email not in remove_participants, in order,
\* followed by each email of add_participants that is not among them, in
\* order
C30_RemoveThenAdd ==
  \A r \in DOMAIN pc :
    (pc[r] = "done" /\ call[r].entry = "editEventController") =>
      LET existing == call[r].attendees
          add == call[r].add_participants
          kept == Kept(existing, call[r].remove_participants)
          added == Added(add, {Val(existing[i]) : i \in kept})
          sent == Val(seen[r].payload).attendees
          n == Cardinality(kept)
      IN /\ Len(sent) = n + Cardinality(added)
         /\ \A k \in 1 .. Len(sent) :
              sent[k] = IF k <= n THEN existing[Nth(kept, k)]
                                  ELSE Some(Val(add)[Nth(added, k - n)])
====
